---- MODULE Spec2Model ----
(***************************************************************************)
(* Snake-in-the-box search engine (docxology/snake, package snake_in_box). *)
(*                                                                         *)
(* Vertices of the hypercube Q_n are the integers 0 .. 2^n - 1, a          *)
(* transition sequence is a sequence of bit positions, a search node is    *)
(* the record built by SnakeNode.__init__, and the engines                 *)
(* (pruned_bfs_search, prime_search, pruned_bfs_search_from_seed) are      *)
(* state machines whose steps are the iterations of their loops.           *)
(***************************************************************************)
EXTENDS Integers, Sequences, FiniteSets, TLC

\* pruned_bfs_search(dimension, memory_limit_gb): its locals, its position
\* and the node it returned
VARIABLES dimension, memory_limit, current_level, next_level, best_snake,
          max_length, level_count, pc, result

bfs_vars == <<dimension, memory_limit, current_level, next_level, best_snake,
              max_length, level_count, pc, result>>

\* a SnakeNode under construction and extension: the constructor's
\* arguments, the node, the argument and outcome of its last create_child
VARIABLES n_seq, n_dim, n_node, n_new_dimension, n_child, n_pc, n_unreachable

node_vars == <<n_seq, n_dim, n_node, n_new_dimension, n_child, n_pc,
              n_unreachable>>

\* a transition sequence taken through transition_to_vertex and back through
\* vertex_to_transition
VARIABLES c_seq, c_dim, c_vertices, c_back, c_pc

codec_vars == <<c_seq, c_dim, c_vertices, c_back, c_pc>>

\* pruned_bfs_search_from_seed(seed_node, dimension, memory_limit_gb,
\* max_levels): its arguments, its locals, its position, the node it
\* returned (empty for None) and, as history, the length of the longest
\* child it generated and the number of times the body of its while loop
\* was entered
VARIABLES seed_node, s_dimension, s_memory_limit, max_levels,
          s_current_level, s_best_snake, s_max_length, s_level_count,
          no_improvement_count, s_pc, s_result, s_generated, s_iterations

seed_vars == <<seed_node, s_dimension, s_memory_limit, max_levels,
               s_current_level, s_best_snake, s_max_length, s_level_count,
               no_improvement_count, s_pc, s_result, s_generated,
               s_iterations>>

\* prime_search(lower_dimension_snake, target_dimension, memory_limit_gb):
\* its arguments, its locals, its position, its return value and, as
\* history, the number of dimension increments started and the output of
\* the last increment that extended
VARIABLES lower_dimension_snake, target_dimension, p_memory_limit,
          current_snake, current_dim, p_pc, p_result, p_increments,
          p_last_output

prime_vars == <<lower_dimension_snake, target_dimension, p_memory_limit,
                current_snake, current_dim, p_pc, p_result, p_increments,
                p_last_output>>

\* a call of validate_snake(v_vertices) or of
\* validate_transition_sequence(v_seq, v_dim): which one, its arguments, the
\* (bool, message) pair it returned and its position
VARIABLES v_call, v_vertices, v_seq, v_dim, v_outcome, v_pc

validate_vars == <<v_call, v_vertices, v_seq, v_dim, v_outcome, v_pc>>

\* a call of is_canonical(k_seq) or of get_legal_next_dimensions(k_seq):
\* which one, its argument, what it returned and its position
VARIABLES k_call, k_seq, k_result, k_pc

canonical_vars == <<k_call, k_seq, k_result, k_pc>>

\* HypercubeBitmap objects driven by a caller: the constructor's argument,
\* the arrays allocated (each the set of its 1 bits), the bitmap objects
\* (each naming its array), the last call (name, object, vertex, outcome),
\* the number of calls made and, as history, the vertices marked in each
\* object according to the calls that succeeded on it
VARIABLES b_dimension, b_arrays, b_bitmaps, b_call, b_target, b_vertex,
          b_outcome, b_calls, b_marked

bitmap_vars == <<b_dimension, b_arrays, b_bitmaps, b_call, b_target,
                 b_vertex, b_outcome, b_calls, b_marked>>

\* a transition sequence written as by export_snake and read back by
\* parse_hex_transition_string: the sequence, the text (a sequence of
\* characters), the number of characters inserted into it, the parsed
\* sequence and the position
VARIABLES x_seq, x_string, x_inserted, x_parsed, x_pc

hex_vars == <<x_seq, x_string, x_inserted, x_parsed, x_pc>>

\* a call of prune_by_fitness(pr_nodes, pr_limit), directly or from the
\* prune step of a search level: the dimension of the nodes, the caller's
\* list, the budget in bytes, the list returned, the position and, as
\* history, the list as it was passed
VARIABLES pr_dim, pr_nodes, pr_limit, pr_result, pr_pc, pr_input

prune_vars == <<pr_dim, pr_nodes, pr_limit, pr_result, pr_pc, pr_input>>

\* parallel_search(q_dimension, q_memory_limit, num_workers): its arguments,
\* the locals of the coordinator, its position and return value, the shared
\* record and the process holding the lock, the chunks of the level, one
\* worker task per chunk and, as history, whether the shared record was
\* ever accessed by a process not holding the lock, whether its stored
\* length was ever lowered, and the length of the longest child generated
VARIABLES q_dimension, q_memory_limit, num_workers, q_current_level,
          q_next_level, q_best_snake, q_max_length, q_level_count, q_pc,
          q_result, best_snake_shared, best_snake_lock, chunks, workers,
          unlocked_access, stored_decreased, q_generated

parallel_vars == <<q_dimension, q_memory_limit, num_workers, q_current_level,
                  q_next_level, q_best_snake, q_max_length, q_level_count,
                  q_pc, q_result, best_snake_shared, best_snake_lock, chunks,
                  workers, unlocked_access, stored_decreased, q_generated>>

\* the variables of the search helpers called on their own
helper_vars == <<prune_vars, parallel_vars>>

\* the variables of the calls of single library functions
lib_vars == <<validate_vars, canonical_vars, bitmap_vars, hex_vars,
              helper_vars>>

vars == <<bfs_vars, node_vars, codec_vars, seed_vars, prime_vars, lib_vars>>

(***************************************************************************)
(* Bounds of the model.                                                    *)
(***************************************************************************)
\* largest hypercube dimension handed to pruned_bfs_search
MaxDim == 5
\* memory budgets are 0 .. MaxBudgetNodes times BudgetStep bytes
MaxBudgetNodes == 3
BudgetStep == 400
\* SnakeNode constructor arguments: dimension 0 .. MaxNodeDim, sequences of
\* at most MaxNodeLen values in -1 .. MaxNodeDim
MaxNodeDim == 3
MaxNodeLen == 4
\* codec arguments: dimension 1 .. MaxCodecDim, sequences of at most
\* MaxCodecLen values in 0 .. MaxCodecDim - 1
MaxCodecDim == 3
MaxCodecLen == 4

\* prime_search arguments: seeds of at most MaxPrimeLen values in
\* -1 .. MaxPrimeVal, targets 0 .. MaxTarget (below the high-dimension regime)
MaxPrimeVal == 2
MaxPrimeLen == 3
MaxTarget == 5
\* pruned_bfs_search_from_seed arguments: seed nodes of dimension
\* 1 .. MaxSeedDim and of dimension HighDimension, whose sequence is a run of
\* zeros (of length 0, ShortPad, MidPad in the high dimension, LongPad in the
\* low ones) followed by at most MaxTailLen values; max_levels 0 .. MaxLevels
MaxSeedDim == 3
MaxTailLen == 2
MaxLevels == 4
ShortPad == 5
MidPad == 10
LongPad == 100

\* the sequences over S of length at most n
\* validate_snake and validate_transition_sequence called on their own
MaxValDim == 3
MaxValLen == 4

\* is_canonical and get_legal_next_dimensions called on their own
MaxCanonVal == 3
MaxCanonLen == 4

\* HypercubeBitmap objects used on their own: the largest dimension, the
\* number of calls after construction and the number of objects
MaxBitDim == 2
MaxBitCalls == 3
MaxBitmaps == 2

\* the hex text format: the largest transition value written (one above
\* the last hex digit), the length of the sequences and the number of
\* characters inserted into the text
MaxHexVal == 16
MaxHexLen == 2
MaxHexInserts == 1
\* prune_by_fitness: dimension of the nodes, length of their sequences and
\* number of nodes in the list
MaxPruneDim == 2
MaxPruneSeqLen == 2
MaxPruneNodes == 3
\* parallel_search: dimension and number of workers; a level entered with
\* any frontier: dimension, number of nodes and length of their sequences
MaxParDim == 3
MaxWorkers == 2
MaxFrontierDim == 2
MaxFrontier == 2
MaxFrontierSeqLen == 1

SeqsUpTo(S, n) == UNION {[1..k -> S] : k \in 0..n}

(***************************************************************************)
(* Integer bit operations (Python int operators on non-negative ints).     *)
(***************************************************************************)
\* 1 << n
Shl1(n) == 2 ^ n

\* a ^ b
RECURSIVE Xor(_, _)
Xor(a, b) ==
    IF a = 0 /\ b = 0 THEN 0
    ELSE (((a % 2) + (b % 2)) % 2) + 2 * Xor(a \div 2, b \div 2)

\* a & b
RECURSIVE BitAnd(_, _)
BitAnd(a, b) ==
    IF a = 0 \/ b = 0 THEN 0
    ELSE ((a % 2) * (b % 2)) + 2 * BitAnd(a \div 2, b \div 2)

\* bin(x).count('1')
RECURSIVE PopCount(_)
PopCount(x) == IF x = 0 THEN 0 ELSE (x % 2) + PopCount(x \div 2)

\* x.bit_length()
RECURSIVE BitLength(_)
BitLength(x) == IF x = 0 THEN 0 ELSE 1 + BitLength(x \div 2)

\* the elements of a finite set of integers in ascending order (list.sort())
RECURSIVE SortedSeq(_)
SortedSeq(S) ==
    IF S = {} THEN <<>>
    ELSE LET m == CHOOSE x \in S : \A y \in S : x <= y
         IN <<m>> \o SortedSeq(S \ {m})

\* list.sort() of a list of integers
RECURSIVE list_sort(_)
list_sort(seq) ==
    IF seq = <<>> THEN <<>>
    ELSE LET rest == list_sort(SubSeq(seq, 1, Len(seq) - 1))
             x == seq[Len(seq)]
             k == Cardinality({i \in 1..Len(rest) : rest[i] <= x})
         IN SubSeq(rest, 1, k) \o <<x>> \o SubSeq(rest, k + 1, Len(rest))

\* set(seq)
Range(seq) == {seq[i] : i \in 1..Len(seq)}

\* max(seq) of a non-empty sequence
MaxOf(seq) == CHOOSE x \in Range(seq) : \A y \in Range(seq) : y <= x

\* seq[:n]
Prefix(seq, n) == SubSeq(seq, 1, IF n < Len(seq) THEN n ELSE Len(seq))

(***************************************************************************)
(* core/hypercube.py: HypercubeBitmap.  The packed array of 64-bit words   *)
(* is represented by the set of vertex indices whose bit is 1.             *)
(***************************************************************************)
HypercubeBitmap(dim) ==
    [dimension |-> dim, num_vertices |-> Shl1(dim), bits |-> {}]

\* HypercubeBitmap.__init__ raises ValueError
HypercubeBitmap_raises(dim) == dim < 1

\* mutant: vertex = num_vertices passes the range check
vertex_out_of_range_inclusive(bm, vertex) ==
    vertex < 0 \/ vertex > bm.num_vertices

\* the range check shared by set_bit, get_bit and clear_bit (IndexError)
vertex_out_of_range(bm, vertex) == vertex < 0 \/ vertex >= bm.num_vertices

set_bit(bm, vertex) == [bm EXCEPT !.bits = @ \cup {vertex}]

get_bit(bm, vertex) == vertex \in bm.bits

\* the number of vertices of range(num_vertices) whose bit is not set
count_unmarked(bm) ==
    bm.num_vertices
    - Cardinality({v \in bm.bits : v >= 0 /\ v < bm.num_vertices})

clear_bit(bm, vertex) == [bm EXCEPT !.bits = @ \ {vertex}]

\* num_vertices minus the number of 1 bits of all the words
count_unmarked_fast(bm) == bm.num_vertices - Cardinality(bm.bits)

clear_all(bm) == [bm EXCEPT !.bits = {}]

\* mutant: the copy keeps the array of the original
copy_array_shared(arrays, a) == a

\* line 102: the array of the copy, array.array('Q', self.bitmap), is a new
\* array
copy_array(arrays, a) == Len(arrays) + 1

(***************************************************************************)
(* core/transitions.py                                                     *)
(***************************************************************************)
\* the fold of ^ over the sequence, taken bit by bit: bit d of the result is
\* the parity of the number of occurrences of d
compute_current_vertex(seq) ==
    LET odd == {d \in Range(seq) :
                   Cardinality({i \in 1..Len(seq) : seq[i] = d}) % 2 = 1}
        RECURSIVE sum_bits(_)
        sum_bits(S) == IF S = {} THEN 0
                       ELSE LET d == CHOOSE x \in S : TRUE
                            IN Xor(sum_bits(S \ {d}), Shl1(d))
    IN sum_bits(odd)

\* transition_to_vertex raises ValueError on the first out-of-range value
transition_to_vertex_raises(seq, dim) ==
    \E i \in 1..Len(seq) : seq[i] < 0 \/ seq[i] >= dim

RECURSIVE transition_to_vertex_from(_, _)
transition_to_vertex_from(seq, start_vertex) ==
    IF seq = <<>> THEN <<start_vertex>>
    ELSE LET vs == transition_to_vertex_from(SubSeq(seq, 1, Len(seq) - 1),
                                             start_vertex)
         IN Append(vs, Xor(vs[Len(vs)], Shl1(seq[Len(seq)])))

transition_to_vertex(seq, dim) == transition_to_vertex_from(seq, 0)

\* vertex_to_transition raises ValueError when two consecutive vertices are
\* identical or differ in more than one bit
vertex_to_transition_raises(vs) ==
    \E i \in 1..(Len(vs) - 1) :
        LET x == Xor(vs[i], vs[i + 1])
        IN x = 0 \/ BitAnd(x, x - 1) # 0

\* mutant: bit_length() is used without the - 1
vertex_to_transition_bit_length(vs) ==
    IF Len(vs) < 2 THEN <<>>
    ELSE [i \in 1..(Len(vs) - 1) |-> BitLength(Xor(vs[i], vs[i + 1]))]

vertex_to_transition(vs) ==
    IF Len(vs) < 2 THEN <<>>
    ELSE [i \in 1..(Len(vs) - 1) |-> BitLength(Xor(vs[i], vs[i + 1])) - 1]

\* line 157: hex_digits = "0123456789abcdef"
hex_digits ==
    <<"0", "1", "2", "3", "4", "5", "6", "7", "8", "9",
      "a", "b", "c", "d", "e", "f">>

\* the letters chr(ord('a') + k) and their upper-case forms
lower_letters == <<"a", "b", "c", "d", "e", "f", "g", "h", "i">>

upper_letters == <<"A", "B", "C", "D", "E", "F", "G", "H", "I">>

\* str.lower() of one character
char_lower(ch) ==
    IF \E k \in 1..Len(upper_letters) : upper_letters[k] = ch
    THEN lower_letters[CHOOSE k \in 1..Len(upper_letters) :
                          upper_letters[k] = ch]
    ELSE ch

\* str.upper() of one character
char_upper(ch) ==
    IF \E k \in 1..Len(lower_letters) : lower_letters[k] = ch
    THEN upper_letters[CHOOSE k \in 1..Len(lower_letters) :
                          lower_letters[k] = ch]
    ELSE ch

\* hex_digits.index(ch), 0-based
hex_index(ch) == (CHOOSE k \in 1..Len(hex_digits) : hex_digits[k] = ch) - 1

\* mutant: the character is looked up as it is, without lower()
RECURSIVE parse_hex_case_sensitive(_)
parse_hex_case_sensitive(str) ==
    IF str = <<>> THEN <<>>
    ELSE LET transitions ==
                 parse_hex_case_sensitive(SubSeq(str, 1, Len(str) - 1))
             char == str[Len(str)]
         IN IF \E k \in 1..Len(hex_digits) : hex_digits[k] = char
            THEN Append(transitions, hex_index(char))
            ELSE transitions

RECURSIVE parse_hex_transition_string(_)
parse_hex_transition_string(str) ==
    IF str = <<>> THEN <<>>
    ELSE LET transitions ==
                 parse_hex_transition_string(SubSeq(str, 1, Len(str) - 1))
             char_low == char_lower(str[Len(str)])
         IN IF \E k \in 1..Len(hex_digits) : hex_digits[k] = char_low
            THEN Append(transitions, hex_index(char_low))
            ELSE transitions

(***************************************************************************)
(* utils/export.py: the text format of export_snake.                       *)
(***************************************************************************)
\* line 61, for 0 <= t: format(t, 'x') if t < 10 else chr(ord('a') + t - 10)
export_hex_char(t) ==
    IF t < 10 THEN hex_digits[t + 1] ELSE lower_letters[t - 10 + 1]

\* lines 60-63: the characters joined into hex_string
export_hex_string(seq) == [i \in 1..Len(seq) |-> export_hex_char(seq[i])]

(***************************************************************************)
(* core/validation.py                                                      *)
(***************************************************************************)
hamming_distance(a, b) == PopCount(Xor(a, b))

\* mutant: only a repeated vertex fails the non-consecutive check
validate_snake_repeats_only(vs) ==
    LET n == Len(vs)
    IN IF n < 2 THEN TRUE
       ELSE IF \E i \in 1..(n - 1) : hamming_distance(vs[i], vs[i + 1]) # 1
            THEN FALSE
       ELSE IF \E i \in 3..n : \E j \in 1..(i - 2) :
                   hamming_distance(vs[i], vs[j]) < 1
            THEN FALSE
       ELSE TRUE

\* the boolean of the (bool, message) pair returned by validate_snake
validate_snake(vs) ==
    LET n == Len(vs)
    IN IF n < 2 THEN TRUE
       ELSE IF \E i \in 1..(n - 1) : hamming_distance(vs[i], vs[i + 1]) # 1
            THEN FALSE
       ELSE IF \E i \in 3..n : \E j \in 1..(i - 2) :
                   hamming_distance(vs[i], vs[j]) <= 1
            THEN FALSE
       ELSE TRUE

validate_transition_sequence(seq, dim) ==
    IF seq = <<>> THEN TRUE
    ELSE IF \E i \in 1..Len(seq) : seq[i] < 0 \/ seq[i] >= dim THEN FALSE
    ELSE IF transition_to_vertex_raises(seq, dim) THEN FALSE
    ELSE validate_snake(transition_to_vertex(seq, dim))

\* the message of the pair returned by validate_snake: which check it
\* reports, the 0-based indices and the distance it names
validate_snake_message(vs) ==
    LET n == Len(vs)
        bad_step == {i \in 1..(n - 1) :
                        hamming_distance(vs[i], vs[i + 1]) # 1}
        bad_pair == {q \in (3..n) \X (1..n) :
                        /\ q[2] <= q[1] - 2
                        /\ hamming_distance(vs[q[1]], vs[q[2]]) <= 1}
    IN IF n < 2
       THEN [kind |-> "Valid snake (trivial case)", i |-> 0, j |-> 0,
             distance |-> 0]
       ELSE IF bad_step # {}
       THEN \* lines 69-75: the first failing i of range(n - 1)
            LET i == CHOOSE a \in bad_step : \A b \in bad_step : a <= b
            IN [kind |-> "Consecutive vertices", i |-> i - 1, j |-> i,
                distance |-> hamming_distance(vs[i], vs[i + 1])]
       ELSE IF bad_pair # {}
       THEN \* lines 80-87: the first failing (i, j), i outermost
            LET q == CHOOSE a \in bad_pair : \A b \in bad_pair :
                         a[1] < b[1] \/ (a[1] = b[1] /\ a[2] <= b[2])
            IN [kind |-> "Non-consecutive vertices", i |-> q[1] - 1,
                j |-> q[2] - 1,
                distance |-> hamming_distance(vs[q[1]], vs[q[2]])]
       ELSE [kind |-> "Valid snake", i |-> 0, j |-> 0, distance |-> 0]

\* the message of the pair returned by validate_transition_sequence
validate_transition_sequence_message(seq, dim) ==
    LET bad == {i \in 1..Len(seq) : seq[i] < 0 \/ seq[i] >= dim}
    IN IF seq = <<>>
       THEN [kind |-> "Valid snake (empty sequence)", i |-> 0, j |-> 0,
             distance |-> 0]
       ELSE IF bad # {}
       THEN LET i == CHOOSE a \in bad : \A b \in bad : a <= b
            IN [kind |-> "Transition out of range", i |-> i - 1,
                j |-> seq[i], distance |-> 0]
       ELSE IF transition_to_vertex_raises(seq, dim)
       THEN [kind |-> "Invalid transition sequence", i |-> 0, j |-> 0,
             distance |-> 0]
       ELSE validate_snake_message(transition_to_vertex(seq, dim))

\* the exceptions raised inside the try block of lines 125-128
raised_in_try(seq, dim) ==
    IF transition_to_vertex_raises(seq, dim) THEN {"ValueError"} ELSE {}

\* mutant: neither the range check nor the except clause is there
validate_transition_sequence_unguarded(seq, dim) ==
    seq # <<>> /\ raised_in_try(seq, dim) # {}

\* an exception leaves validate_transition_sequence: one raised in the try
\* block, reached after the range check, that `except ValueError` lets by
validate_transition_sequence_raises(seq, dim) ==
    /\ seq # <<>>
    /\ \A i \in 1..Len(seq) : seq[i] >= 0 /\ seq[i] < dim
    /\ raised_in_try(seq, dim) \ {"ValueError"} # {}

(***************************************************************************)
(* utils/canonical.py                                                      *)
(***************************************************************************)
\* the loop of is_canonical: max_dimension after the first i elements, or -1
\* once some element exceeded max_dimension + 1
RECURSIVE canonical_scan(_, _)
canonical_scan(seq, i) ==
    IF i = 0 THEN 0
    ELSE LET m == canonical_scan(seq, i - 1)
         IN IF m < 0 THEN m
            ELSE IF seq[i] > m + 1 THEN -1
            ELSE IF seq[i] = m + 1 THEN seq[i]
            ELSE m

\* mutant: the first transition is not required to be 0
is_canonical_any_first(seq) ==
    IF seq = <<>> THEN TRUE
    ELSE canonical_scan(seq, Len(seq)) >= 0

is_canonical(seq) ==
    IF seq = <<>> THEN TRUE
    ELSE IF seq[1] # 0 THEN FALSE
    ELSE canonical_scan(seq, Len(seq)) >= 0

\* mutant: the new dimension offered skips one (max_dim + 2)
get_legal_next_dimensions_skip(seq) ==
    IF seq = <<>> THEN <<0>>
    ELSE SortedSeq(Range(seq) \cup {MaxOf(seq) + 2})

\* mutant: max_dim itself is appended to the used dimensions
get_legal_next_dimensions_max(seq) ==
    IF seq = <<>> THEN <<0>>
    ELSE list_sort(Append(SortedSeq(Range(seq)), MaxOf(seq)))

\* lines 93-97: list(set(...)), append(max_dim + 1), sort()
get_legal_next_dimensions(seq) ==
    IF seq = <<>> THEN <<0>>
    ELSE list_sort(Append(SortedSeq(Range(seq)), MaxOf(seq) + 1))

(***************************************************************************)
(* core/snake_node.py: SnakeNode                                           *)
(***************************************************************************)
\* mutant: only a negative dimension is refused
SnakeNode_raises_negative_dimension(seq, dim) ==
    dim < 0 \/ \E i \in 1..Len(seq) : seq[i] < 0 \/ seq[i] >= dim

\* SnakeNode.__init__ raises ValueError
SnakeNode_raises(seq, dim) ==
    dim < 1 \/ \E i \in 1..Len(seq) : seq[i] < 0 \/ seq[i] >= dim

\* mutant: dimension 0 never counts as used
get_used_dimensions_but_zero(seq) == Range(seq) \ {0}

\* mutant: the first two transitions are not counted
get_used_dimensions_after_second(seq) ==
    IF Len(seq) < 3 THEN {} ELSE Range(SubSeq(seq, 3, Len(seq)))

_get_used_dimensions(seq) == IF seq = <<>> THEN {} ELSE Range(seq)

_mark_vertex(vertex, bm) == set_bit(bm, vertex)

RECURSIVE mark_dims(_, _, _)
mark_dims(vertex, bm, dims) ==
    IF dims = {} THEN bm
    ELSE LET d == CHOOSE x \in dims : TRUE
         IN mark_dims(vertex, set_bit(bm, Xor(vertex, Shl1(d))), dims \ {d})

\* mutant: the neighbours along the two lowest dimensions are never marked
\* as prohibited
mark_adjacent_above_one(vertex, bm, used_dimensions) ==
    mark_dims(vertex, bm, {d \in used_dimensions : 1 < d /\ d < bm.dimension})

\* mutant: the neighbours along all dimensions are marked (the
\* used_dimensions = None default of the method)
mark_adjacent_all(vertex, bm, used_dimensions) ==
    mark_dims(vertex, bm, 0..(bm.dimension - 1))

_mark_adjacent(vertex, bm, used_dimensions) ==
    mark_dims(vertex, bm, {d \in used_dimensions : d < bm.dimension})

\* the bits set for one path vertex: the vertex and its neighbours along the
\* used dimensions
marked_at(vertex, dim, used) ==
    _mark_adjacent(vertex, _mark_vertex(vertex, HypercubeBitmap(dim)), used).bits

\* the bitmap after the loop of _initialize_bitmap: the bits set for the
\* origin and for the vertex reached after each transition
_initialize_bitmap(seq, dim) ==
    LET used == _get_used_dimensions(seq)
    IN [HypercubeBitmap(dim) EXCEPT !.bits =
           UNION {marked_at(compute_current_vertex(SubSeq(seq, 1, i)), dim,
                            used) : i \in 0..Len(seq)}]

\* mutant: the marked vertices are counted
calculate_fitness_marked(bm) == Cardinality(bm.bits)

_calculate_fitness(bm) == count_unmarked(bm)

\* the node SnakeNode(seq, dim) when the constructor does not raise
SnakeNode(seq, dim) ==
    LET bm == _initialize_bitmap(seq, dim)
    IN [transition_sequence |-> seq,
        dimension           |-> dim,
        vertices_bitmap     |-> bm,
        fitness             |-> _calculate_fitness(bm)]

get_current_vertex(node) == compute_current_vertex(node.transition_sequence)

_is_marked(node, vertex) == get_bit(node.vertices_bitmap, vertex)

\* mutant: only the range of new_dimension is tested
can_extend_in_range(node, new_dimension) ==
    new_dimension >= 0 /\ new_dimension < node.dimension

can_extend(node, new_dimension) ==
    IF new_dimension < 0 \/ new_dimension >= node.dimension THEN FALSE
    ELSE ~_is_marked(node, Xor(get_current_vertex(node), Shl1(new_dimension)))

\* create_child raises ValueError exactly when can_extend is false
create_child(node, new_dimension) ==
    SnakeNode(Append(node.transition_sequence, new_dimension), node.dimension)

\* mutant: new_dimension is appended to the parent's own list
create_child_self_appended(node, new_dimension) ==
    IF can_extend(node, new_dimension)
    THEN [node EXCEPT !.transition_sequence = Append(@, new_dimension)]
    ELSE node

\* the node create_child was called on, after the call: can_extend only
\* reads it and line 138 builds the child's sequence as a new list
create_child_self(node, new_dimension) == node

get_length(node) == Len(node.transition_sequence)

(***************************************************************************)
(* search/fitness.py: AdvancedFitnessEvaluator.                            *)
(***************************************************************************)
count_unmarked_vertices(node) == node.fitness

\* the neighbours of vertex that are appended to the queue, in the order of
\* range(dimension), given the visited set after vertex was added
RECURSIVE flood_neighbours(_, _, _, _)
flood_neighbours(node, vertex, visited, dim) ==
    IF dim >= node.dimension THEN <<>>
    ELSE LET neighbor == Xor(vertex, Shl1(dim))
             rest == flood_neighbours(node, vertex, visited, dim + 1)
         IN IF neighbor \notin visited THEN <<neighbor>> \o rest ELSE rest

\* the while loop of _flood_fill_reachable
RECURSIVE flood_fill(_, _, _)
flood_fill(node, queue, visited) ==
    IF queue = <<>> THEN visited
    ELSE LET vertex == Head(queue)
         IN IF vertex \in visited \/ _is_marked(node, vertex)
            THEN flood_fill(node, Tail(queue), visited)
            ELSE flood_fill(node,
                     Tail(queue) \o flood_neighbours(node, vertex,
                                        visited \cup {vertex}, 0),
                     visited \cup {vertex})

_flood_fill_reachable(node, start_vertex) ==
    flood_fill(node, <<start_vertex>>, {})

count_unreachable_vertices(node) ==
    LET current_vertex == compute_current_vertex(node.transition_sequence)
        reachable == _flood_fill_reachable(node, current_vertex)
        total_unmarked == count_unmarked_vertices(node)
    IN total_unmarked - Cardinality(reachable)

(***************************************************************************)
(* search/bfs_pruned.py: memory estimate and pruning.  The budget          *)
(* memory_limit_gb is carried in bytes (memory_limit_gb * 1024**3).        *)
(***************************************************************************)
\* sys.getsizeof of an empty list, of one list slot, of a small int, and of
\* an empty array('Q') on 64-bit CPython
ListOverhead == 56
ListSlot == 8
IntSize == 28
ArrayOverhead == 80
\* bytes per 64-bit bitmap word
WordBytes == 8
\* object_overhead
ObjectOverhead == 200

\* HypercubeBitmap.num_words
num_words(bm) == (bm.num_vertices + 63) \div 64

estimate_node_size(node) ==
    LET transition_size == ListOverhead
                           + ListSlot * Len(node.transition_sequence)
                           + Len(node.transition_sequence) * IntSize
        bitmap_size == ArrayOverhead
                       + WordBytes * num_words(node.vertices_bitmap)
                       + num_words(node.vertices_bitmap) * WordBytes
    IN transition_size + bitmap_size + ObjectOverhead

\* estimate_memory_usage(nodes), in bytes
estimate_memory_usage(nodes) ==
    IF nodes = <<>> THEN 0
    ELSE Len(nodes) * estimate_node_size(nodes[1])

\* mutant: line 185 is missing, the list is cut as it came
sort_by_fitness_unsorted(nodes, i) == SubSeq(nodes, 1, i)

\* list.sort(key=fitness, reverse=True): stable insertion of nodes[i] into
\* the already sorted prefix
RECURSIVE sort_by_fitness(_, _)
sort_by_fitness(nodes, i) ==
    IF i = 0 THEN <<>>
    ELSE LET done == sort_by_fitness(nodes, i - 1)
             n    == nodes[i]
             k    == Cardinality({j \in 1..Len(done) :
                                      done[j].fitness >= n.fitness})
         IN SubSeq(done, 1, k) \o <<n>> \o SubSeq(done, k + 1, Len(done))

prune_by_fitness(nodes, limit) ==
    IF nodes = <<>> THEN nodes
    ELSE LET bytes_per_node == estimate_node_size(nodes[1])
             max_nodes == limit \div bytes_per_node
         IN IF Len(nodes) <= max_nodes THEN nodes
            ELSE Prefix(sort_by_fitness(nodes, Len(nodes)), max_nodes)

\* the caller's list after prune_by_fitness(nodes, limit): line 185 sorts
\* it in place
prune_by_fitness_nodes(nodes, limit) ==
    IF nodes = <<>> THEN nodes
    ELSE LET bytes_per_node == estimate_node_size(nodes[1])
             max_nodes == limit \div bytes_per_node
         IN IF Len(nodes) <= max_nodes THEN nodes
            ELSE sort_by_fitness(nodes, Len(nodes))

is_valid_extension(node, new_dimension) == can_extend(node, new_dimension)

(***************************************************************************)
(* search/bfs_pruned.py: pruned_bfs_search.  best_snake is a sequence of   *)
(* at most one node; the empty sequence is None.                           *)
(***************************************************************************)
\* mutant: best_snake is assigned only while it is None
RECURSIVE expand_dims_first_only(_, _, _, _)
expand_dims_first_only(node, legal_dims, k, acc) ==
    IF k = 0 THEN acc
    ELSE LET a   == expand_dims_first_only(node, legal_dims, k - 1, acc)
             dim == legal_dims[k]
         IN IF is_valid_extension(node, dim)
            THEN LET child == create_child(node, dim)
                 IN IF a.best_snake = <<>>
                    THEN [next_level  |-> Append(a.next_level, child),
                          best_snake  |-> <<child>>,
                          max_length  |-> get_length(child)]
                    ELSE [a EXCEPT !.next_level = Append(@, child)]
            ELSE a

\* the body of `for dim in legal_dims` for the dims legal_dims[1..k] of one
\* node, threading next_level, best_snake, max_length
RECURSIVE expand_dims(_, _, _, _)
expand_dims(node, legal_dims, k, acc) ==
    IF k = 0 THEN acc
    ELSE LET a   == expand_dims(node, legal_dims, k - 1, acc)
             dim == legal_dims[k]
         IN IF is_valid_extension(node, dim)
            THEN LET child == create_child(node, dim)
                 IN IF get_length(child) > a.max_length
                    THEN [next_level  |-> Append(a.next_level, child),
                          best_snake  |-> <<child>>,
                          max_length  |-> get_length(child)]
                    ELSE [a EXCEPT !.next_level = Append(@, child)]
            ELSE a

\* the body of `for node in current_level` for the nodes level[1..i]
RECURSIVE expand_level(_, _, _)
expand_level(level, i, acc) ==
    IF i = 0 THEN acc
    ELSE LET node == level[i]
             legal_dims == get_legal_next_dimensions(node.transition_sequence)
         IN expand_dims(node, legal_dims, Len(legal_dims),
                        expand_level(level, i - 1, acc))

(***************************************************************************)
(* search/priming.py                                                       *)
(***************************************************************************)
\* mutant: the largest transition value is taken for the dimension
detect_dimension_max(seq) == IF seq = <<>> THEN 1 ELSE MaxOf(seq)

detect_dimension(seq) == IF seq = <<>> THEN 1 ELSE MaxOf(seq) + 1

\* `dimension >= 14` / `current_dim + 1 >= 14`: the high-dimension regime
HighDimension == 14
\* `seed_length > 100`: seeds long enough for prefix backtracking
LongSeedLength == 100
\* `node.fitness > 100`: a stuck node kept in the high-dimension regime
StuckFitness == 100
\* `best_snake.get_length() > 10`
BacktrackLength == 10
\* `level_count > 100`
BacktrackLevels == 100
\* `level_count > 1000` and `level_count < 5000`
StallLevels == 1000
StallLevelsHigh == 5000

\* max_no_improvement
max_no_improvement(dim) == IF dim >= HighDimension THEN 5000 ELSE 2000

\* the ratio lists, in thousandths; int(length * ratio) is
\* (length * thousandths) \div 1000, which agrees with the float product for
\* every length below 90 and from 91 to 169
prefix_ratios(dim) ==
    IF dim >= HighDimension
    THEN <<999, 990, 980, 970, 950, 930, 900, 870, 850, 800, 750, 700, 650,
           600, 500, 400, 300, 200, 100>>
    ELSE <<980, 950, 900, 850, 800, 750, 700>>

fixed_lengths(dim, seed_length) ==
    IF dim >= HighDimension
    THEN <<seed_length - 1, seed_length - 10, seed_length - 50,
           seed_length - 100, seed_length - 500, seed_length - 1000,
           seed_length \div 2, seed_length \div 4>>
    ELSE <<>>

backtrack_ratios == <<900, 800, 700, 600, 500, 400, 300, 200, 100, 50>>

backtrack_lengths == <<1000, 500, 200, 100, 50, 20, 10>>

short_lengths == <<100, 50, 20, 10, 5>>

ratio_length(length, thousandths) == (length * thousandths) \div 1000

\* legal_dims with the new dimension appended when it is not legal already
seed_legal_dims(seq, dim) ==
    LET legal_dims == get_legal_next_dimensions(seq)
        new_dim == dim - 1
    IN IF new_dim \notin Range(legal_dims) /\ new_dim < dim
       THEN legal_dims \o <<new_dim>>
       ELSE legal_dims

\* any(is_valid_extension(node, d) for d in legal_dims if d < dimension)
can_extend_in(n, legal_dims, dim) ==
    \E k \in 1..Len(legal_dims) :
        legal_dims[k] < dim /\ is_valid_extension(n, legal_dims[k])

\* lines 190-210: is the prefix of length prefix_len appended to
\* initial_nodes
ratio_prefix_added(seed, dim, prefix_len) ==
    /\ prefix_len > 0
    /\ prefix_len < get_length(seed)
    /\ LET prefix_seq == Prefix(seed.transition_sequence, prefix_len)
           prefix_node == SnakeNode(prefix_seq, dim)
       IN \/ can_extend(prefix_node, dim - 1)
          \/ can_extend_in(prefix_node, get_legal_next_dimensions(prefix_seq),
                           dim)

\* lines 190-210: the nodes appended for prefix_ratios[1..k]
RECURSIVE ratio_prefixes(_, _, _)
ratio_prefixes(seed, dim, k) ==
    IF k = 0 THEN <<>>
    ELSE LET prefix_len == ratio_length(get_length(seed),
                                        prefix_ratios(dim)[k])
             before == ratio_prefixes(seed, dim, k - 1)
         IN IF ratio_prefix_added(seed, dim, prefix_len)
            THEN Append(before,
                        SnakeNode(Prefix(seed.transition_sequence, prefix_len),
                                  dim))
            ELSE before

\* lines 213-229: the nodes appended for fixed_lengths[1..k]
RECURSIVE fixed_prefixes(_, _, _)
fixed_prefixes(seed, dim, k) ==
    IF k = 0 THEN <<>>
    ELSE LET prefix_len == fixed_lengths(dim, get_length(seed))[k]
             ratios == prefix_ratios(dim)
             before == fixed_prefixes(seed, dim, k - 1)
         IN IF /\ ratio_prefix_added(seed, dim, prefix_len)
               /\ \A j \in 1..Len(ratios) :
                      prefix_len # ratio_length(get_length(seed), ratios[j])
            THEN Append(before,
                        SnakeNode(Prefix(seed.transition_sequence, prefix_len),
                                  dim))
            ELSE before

\* lines 173-229
initial_nodes(seed, dim) ==
    IF get_length(seed) > LongSeedLength
    THEN <<seed>>
         \o ratio_prefixes(seed, dim, Len(prefix_ratios(dim)))
         \o fixed_prefixes(seed, dim, Len(fixed_lengths(dim, get_length(seed))))
    ELSE <<seed>>

\* lines 233-254: the nodes of nodes[1..k] kept as viable
RECURSIVE viable_filter(_, _, _)
viable_filter(nodes, dim, k) ==
    IF k = 0 THEN <<>>
    ELSE LET n == nodes[k]
             before == viable_filter(nodes, dim, k - 1)
         IN IF can_extend_in(n, seed_legal_dims(n.transition_sequence, dim),
                             dim)
            THEN Append(before, n)
            ELSE IF dim >= HighDimension /\ n.fitness > StuckFitness
            THEN Append(before, n)
            ELSE before

\* lines 262-280: the first short prefix, among short_lengths[k..], that can
\* extend
RECURSIVE short_prefix(_, _, _)
short_prefix(seed, dim, k) ==
    IF k > Len(short_lengths) THEN <<>>
    ELSE LET short_len == short_lengths[k]
             short_seq == Prefix(seed.transition_sequence, short_len)
             short_node == SnakeNode(short_seq, dim)
         IN IF /\ short_len < get_length(seed)
               /\ can_extend_in(short_node, seed_legal_dims(short_seq, dim),
                                dim)
            THEN <<short_node>>
            ELSE short_prefix(seed, dim, k + 1)

\* lines 231-288: the starting frontier
viable_nodes(seed, dim) ==
    LET initial == initial_nodes(seed, dim)
        viable  == viable_filter(initial, dim, Len(initial))
    IN IF viable # <<>> THEN viable
       ELSE LET short == short_prefix(seed, dim, 1)
            IN IF short # <<>> THEN short ELSE <<seed>>


\* max_length = seed_length (line 290)
initial_max_length(seed) == get_length(seed)

\* mutant: best_snake is assigned for every child, not only for a longer one
RECURSIVE seed_expand_dims_best_last(_, _, _, _, _)
seed_expand_dims_best_last(n, legal_dims, k, acc, dim) ==
    IF k = 0 THEN acc
    ELSE LET a == seed_expand_dims_best_last(n, legal_dims, k - 1, acc, dim)
             dim_val == legal_dims[k]
         IN IF dim_val >= dim THEN a
            ELSE IF is_valid_extension(n, dim_val)
            THEN LET c == create_child(n, dim_val)
                 IN IF get_length(c) > a.max_length
                    THEN [next_level |-> Append(a.next_level, c),
                          best_snake |-> <<c>>,
                          max_length |-> get_length(c),
                          no_improvement_count |-> 0]
                    ELSE [a EXCEPT !.next_level = Append(@, c),
                                   !.best_snake = <<c>>,
                                   !.no_improvement_count = @ + 1]
            ELSE a

\* lines 320-348: the body of `for dim_val in legal_dims` for
\* legal_dims[1..k] of one node
RECURSIVE seed_expand_dims(_, _, _, _, _)
seed_expand_dims(n, legal_dims, k, acc, dim) ==
    IF k = 0 THEN acc
    ELSE LET a == seed_expand_dims(n, legal_dims, k - 1, acc, dim)
             dim_val == legal_dims[k]
         IN IF dim_val >= dim THEN a
            ELSE IF is_valid_extension(n, dim_val)
            THEN LET c == create_child(n, dim_val)
                 IN IF get_length(c) > a.max_length
                    THEN [next_level |-> Append(a.next_level, c),
                          best_snake |-> <<c>>,
                          max_length |-> get_length(c),
                          no_improvement_count |-> 0]
                    ELSE [a EXCEPT !.next_level = Append(@, c),
                                   !.no_improvement_count = @ + 1]
            ELSE a

\* lines 309-348: the body of `for node in current_level` for level[1..i]
RECURSIVE seed_expand_level(_, _, _, _)
seed_expand_level(level, i, acc, dim) ==
    IF i = 0 THEN acc
    ELSE LET legal_dims == seed_legal_dims(level[i].transition_sequence, dim)
         IN seed_expand_dims(level[i], legal_dims, Len(legal_dims),
                             seed_expand_level(level, i - 1, acc, dim), dim)

\* max(1, int(best_snake.get_length() * ratio))
backtrack_length(best, k) ==
    LET l == ratio_length(get_length(best), backtrack_ratios[k])
    IN IF l < 1 THEN 1 ELSE l

\* can the prefix of the best node of length prefix_len extend
prefix_extends(best, dim, prefix_len) ==
    LET prefix_seq == Prefix(best.transition_sequence, prefix_len)
    IN can_extend_in(SnakeNode(prefix_seq, dim),
                     seed_legal_dims(prefix_seq, dim), dim)

\* lines 364-389: the ratio loop from backtrack_ratios[k] on with the
\* lengths tried so far; <<next_level, tried_lengths>>
RECURSIVE backtrack_by_ratio(_, _, _, _)
backtrack_by_ratio(best, dim, k, tried) ==
    IF k > Len(backtrack_ratios) THEN <<(<<>>), tried>>
    ELSE LET prefix_len == backtrack_length(best, k)
         IN IF prefix_len < get_length(best) /\ prefix_len \notin tried
            THEN IF prefix_extends(best, dim, prefix_len)
                 THEN <<(<<SnakeNode(Prefix(best.transition_sequence,
                                            prefix_len), dim)>>),
                        tried \cup {prefix_len}>>
                 ELSE backtrack_by_ratio(best, dim, k + 1,
                                         tried \cup {prefix_len})
            ELSE backtrack_by_ratio(best, dim, k + 1, tried)

\* lines 392-414: the fixed-length loop from backtrack_lengths[k] on
RECURSIVE backtrack_by_length(_, _, _, _)
backtrack_by_length(best, dim, k, tried) ==
    IF k > Len(backtrack_lengths) THEN <<>>
    ELSE LET short_len == backtrack_lengths[k]
         IN IF /\ short_len < get_length(best)
               /\ short_len \notin tried
               /\ prefix_extends(best, dim, short_len)
            THEN <<SnakeNode(Prefix(best.transition_sequence, short_len),
                             dim)>>
            ELSE backtrack_by_length(best, dim, k + 1, tried)

\* lines 361-414: the frontier found by backtracking from the best node
backtrack(best, dim) ==
    IF get_length(best) > BacktrackLength
    THEN LET by_ratio == backtrack_by_ratio(best, dim, 1, {})
         IN IF by_ratio[1] # <<>> THEN by_ratio[1]
            ELSE backtrack_by_length(best, dim, 1, by_ratio[2])
    ELSE <<>>

\* the longest length among nodes and longest
RECURSIVE longest_length(_, _)
longest_length(nodes, longest) ==
    IF nodes = <<>> THEN longest
    ELSE LET l == get_length(nodes[1])
         IN longest_length(Tail(nodes), IF l > longest THEN l ELSE longest)

\* mutant: the best node is returned whether or not it is longer than the seed
search_outcome_always(best, longest, seed) == best

\* lines 481-507: the best node if the search extended the seed, else None
search_outcome(best, longest, seed) ==
    IF best # <<>> /\ longest > get_length(seed) THEN best ELSE <<>>

\* lines 107-127 of prime_search: what becomes of current_snake and
\* current_dim given the node (or None) that the seeded search returned, and
\* whether prime_search returns
after_search(extended, snake, dim) ==
    IF extended = <<>>
    THEN [current_snake |-> snake, current_dim |-> dim, returns |-> TRUE]
    ELSE IF get_length(extended[1]) > Len(snake)
    THEN [current_snake |-> extended[1].transition_sequence,
          current_dim |-> dim + 1, returns |-> FALSE]
    ELSE [current_snake |-> snake, current_dim |-> dim, returns |-> TRUE]

\* lines 86-95 of prime_search: max_levels
prime_max_levels(dim) == IF dim >= HighDimension THEN 200000 ELSE 50000

\* lines 86-101 of prime_search: the budget handed to the seeded search;
\* the cap min(., 50.0) GB lies above every budget of the model
prime_search_memory(dim, limit) ==
    IF dim >= HighDimension THEN 2 * limit ELSE limit

\* the budgets: a few node sizes, and 1 GiB
MemoryBudgets ==
    {k * BudgetStep : k \in 0..MaxBudgetNodes} \cup {1024 * 1024 * 1024}

\* lines 50-58: the state on entry to the while loop
BfsInit ==
    /\ dimension \in 1..MaxDim
    /\ memory_limit \in MemoryBudgets
    /\ current_level = <<SnakeNode(<<>>, dimension)>>
    /\ next_level = <<>>
    /\ best_snake = <<>>
    /\ max_length = 0
    /\ level_count = 0
    /\ pc = "expand"
    /\ result = <<>>

\* lines 60-89: one pass of `for node in current_level`
Expand ==
    /\ pc = "expand"
    /\ current_level # <<>>
    /\ LET acc == expand_level(current_level, Len(current_level),
                               [next_level |-> <<>>,
                                best_snake |-> best_snake,
                                max_length |-> max_length])
       IN /\ next_level' = acc.next_level
          /\ best_snake' = acc.best_snake
          /\ max_length' = acc.max_length
    /\ pc' = "prune"
    /\ UNCHANGED <<dimension, memory_limit, current_level, level_count, result>>

\* mutant: line 103 is missing, the level is not counted
PruneAdvanceUncounted ==
    /\ pc = "prune"
    /\ LET pruned == IF estimate_memory_usage(next_level) > memory_limit
                     THEN prune_by_fitness(next_level, memory_limit)
                     ELSE next_level
       IN /\ current_level' = pruned
          /\ pc' = IF pruned = <<>> THEN "return" ELSE "expand"
    /\ next_level' = <<>>
    /\ UNCHANGED <<dimension, memory_limit, best_snake, max_length, result,
                   level_count>>

\* lines 91-116: prune, advance to the next level, leave the loop when the
\* new frontier is empty
PruneAdvance ==
    /\ pc = "prune"
    /\ LET pruned == IF estimate_memory_usage(next_level) > memory_limit
                     THEN prune_by_fitness(next_level, memory_limit)
                     ELSE next_level
       IN /\ current_level' = pruned
          /\ pc' = IF pruned = <<>> THEN "return" ELSE "expand"
    /\ next_level' = <<>>
    /\ level_count' = level_count + 1
    /\ UNCHANGED <<dimension, memory_limit, best_snake, max_length, result>>

\* lines 118-132: return best_snake
Return ==
    /\ pc = "return"
    /\ result' = best_snake
    /\ pc' = "done"
    /\ UNCHANGED <<dimension, memory_limit, current_level, next_level,
                   best_snake, max_length, level_count>>

BfsNext == Expand \/ PruneAdvance \/ Return

\* pruned_bfs_search is not running
BfsIdle ==
    /\ dimension = 1
    /\ memory_limit = 0
    /\ current_level = <<>>
    /\ next_level = <<>>
    /\ best_snake = <<>>
    /\ max_length = 0
    /\ level_count = 0
    /\ pc = "idle"
    /\ result = <<>>

(***************************************************************************)
(* core/snake_node.py driven by a caller: SnakeNode(n_seq, n_dim), then    *)
(* create_child(new_dimension) on the node; a caller may go on with the    *)
(* child as the search engines do.                                         *)
(***************************************************************************)
NodeInit ==
    /\ n_dim \in 0..MaxNodeDim
    /\ n_seq \in SeqsUpTo(-1..MaxNodeDim, MaxNodeLen)
    /\ n_node = <<>>
    /\ n_new_dimension = 0
    /\ n_child = <<>>
    /\ n_unreachable = <<>>
    /\ n_pc = "new"

NodeIdle ==
    /\ n_dim = 0
    /\ n_seq = <<>>
    /\ n_node = <<>>
    /\ n_new_dimension = 0
    /\ n_child = <<>>
    /\ n_unreachable = <<>>
    /\ n_pc = "idle"

\* SnakeNode.__init__
NewNode ==
    /\ n_pc = "new"
    /\ IF SnakeNode_raises(n_seq, n_dim)
       THEN /\ n_pc' = "ValueError"
            /\ n_node' = n_node
       ELSE /\ n_pc' = "node"
            /\ n_node' = <<SnakeNode(n_seq, n_dim)>>
    /\ UNCHANGED <<n_seq, n_dim, n_new_dimension, n_child, n_unreachable>>

\* SnakeNode.create_child(d)
CreateChild(d) ==
    /\ n_pc \in {"node", "child", "child ValueError"}
    /\ n_new_dimension' = d
    /\ IF ~can_extend(n_node[1], d)
       THEN /\ n_pc' = "child ValueError"
            /\ n_child' = <<>>
       ELSE /\ n_pc' = "child"
            /\ n_child' = <<create_child(n_node[1], d)>>
    /\ n_node' = <<create_child_self(n_node[1], d)>>
    /\ n_unreachable' = <<>>
    /\ UNCHANGED <<n_seq, n_dim>>

\* the caller continues from the child (bfs_pruned.py: the child joins the
\* next frontier and is expanded in turn)
Descend ==
    /\ n_pc = "child"
    /\ n_node' = n_child
    /\ n_child' = <<>>
    /\ n_pc' = "node"
    /\ n_unreachable' = <<>>
    /\ UNCHANGED <<n_seq, n_dim, n_new_dimension>>

\* AdvancedFitnessEvaluator(node).count_unreachable_vertices()
CountUnreachable ==
    /\ n_pc \in {"node", "child", "child ValueError"}
    /\ n_unreachable = <<>>
    /\ n_unreachable' = <<count_unreachable_vertices(n_node[1])>>
    /\ UNCHANGED <<n_seq, n_dim, n_node, n_new_dimension, n_child, n_pc>>

NodeNext ==
    \/ NewNode
    \/ (\E d \in -1..MaxNodeDim : CreateChild(d))
    \/ Descend
    \/ CountUnreachable

(***************************************************************************)
(* core/transitions.py driven by a caller: transition_to_vertex(c_seq,     *)
(* c_dim), then vertex_to_transition on its result.                        *)
(***************************************************************************)
CodecInit ==
    /\ c_dim \in 1..MaxCodecDim
    /\ c_seq \in SeqsUpTo(0..(MaxCodecDim - 1), MaxCodecLen)
    /\ c_vertices = <<>>
    /\ c_back = <<>>
    /\ c_pc = "transitions"

CodecIdle ==
    /\ c_dim = 1
    /\ c_seq = <<>>
    /\ c_vertices = <<>>
    /\ c_back = <<>>
    /\ c_pc = "idle"

ToVertices ==
    /\ c_pc = "transitions"
    /\ IF transition_to_vertex_raises(c_seq, c_dim)
       THEN /\ c_pc' = "ValueError"
            /\ c_vertices' = c_vertices
       ELSE /\ c_pc' = "vertices"
            /\ c_vertices' = transition_to_vertex(c_seq, c_dim)
    /\ UNCHANGED <<c_seq, c_dim, c_back>>

ToTransitions ==
    /\ c_pc = "vertices"
    /\ IF vertex_to_transition_raises(c_vertices)
       THEN /\ c_pc' = "back ValueError"
            /\ c_back' = c_back
       ELSE /\ c_pc' = "back"
            /\ c_back' = vertex_to_transition(c_vertices)
    /\ UNCHANGED <<c_seq, c_dim, c_vertices>>

CodecNext == ToVertices \/ ToTransitions

(***************************************************************************)
(* search/priming.py: pruned_bfs_search_from_seed as a state machine, one  *)
(* step per iteration of its while loop.                                   *)
(***************************************************************************)
SeedIdle ==
    /\ seed_node = <<>>
    /\ s_dimension = 1
    /\ s_memory_limit = 0
    /\ max_levels = 0
    /\ s_current_level = <<>>
    /\ s_best_snake = <<>>
    /\ s_max_length = 0
    /\ s_level_count = 0
    /\ no_improvement_count = 0
    /\ s_pc = "idle"
    /\ s_result = <<>>
    /\ s_generated = 0
    /\ s_iterations = 0

\* the call pruned_bfs_search_from_seed(n, dim, limit, levels)
SeedCall(n, dim, limit, levels) ==
    /\ seed_node' = <<n>>
    /\ s_dimension' = dim
    /\ s_memory_limit' = limit
    /\ max_levels' = levels
    /\ s_current_level' = <<>>
    /\ s_best_snake' = <<>>
    /\ s_max_length' = 0
    /\ s_level_count' = 0
    /\ no_improvement_count' = 0
    /\ s_pc' = "entry"
    /\ s_result' = <<>>
    /\ s_generated' = 0
    /\ s_iterations' = 0

\* the count of loop iterations is kept up to this value
IterationCap == MaxLevels + 2

\* the `while current_level and level_count < max_levels` test
loop_continues(level, count, levels) == level # <<>> /\ count < levels

\* lines 162-303: the dimension check and the starting frontier
SeedEntry ==
    /\ s_pc = "entry"
    /\ IF seed_node[1].dimension # s_dimension
       THEN /\ s_pc' = "ValueError"
            /\ UNCHANGED <<s_current_level, s_best_snake, s_max_length>>
       ELSE LET viable == viable_nodes(seed_node[1], s_dimension)
            IN /\ s_current_level' = viable
               /\ s_best_snake' = seed_node
               /\ s_max_length' = initial_max_length(seed_node[1])
               /\ s_pc' = IF loop_continues(viable, 0, max_levels)
                          THEN "loop" ELSE "return"
    /\ UNCHANGED <<seed_node, s_dimension, s_memory_limit, max_levels,
                   s_level_count, no_improvement_count, s_result, s_generated,
                   s_iterations>>

\* lines 305-477: one iteration of the while loop
SeedLevel ==
    /\ s_pc = "loop"
    /\ s_iterations' = IF s_iterations < IterationCap
                       THEN s_iterations + 1 ELSE s_iterations
    /\ LET acc == seed_expand_level(s_current_level, Len(s_current_level),
                      [next_level |-> <<>>,
                       best_snake |-> s_best_snake,
                       max_length |-> s_max_length,
                       no_improvement_count |-> no_improvement_count],
                      s_dimension)
           stuck == acc.next_level = <<>>
           high == s_dimension >= HighDimension
           found == IF stuck /\ high
                    THEN backtrack(acc.best_snake[1], s_dimension)
                    ELSE acc.next_level
           pruned == IF estimate_memory_usage(found) > s_memory_limit
                     THEN prune_by_fitness(found, s_memory_limit)
                     ELSE found
           stalled == acc.no_improvement_count > max_no_improvement(s_dimension)
           extended == acc.max_length > get_length(seed_node[1])
       IN /\ s_best_snake' = acc.best_snake
          /\ s_max_length' = acc.max_length
          /\ s_generated' = longest_length(acc.next_level, s_generated)
          /\ IF found = <<>>
             THEN \* no children and no prefix to go back to
                  /\ s_pc' = IF high /\ s_level_count <= BacktrackLevels
                             THEN "loop"      \* `continue`
                             ELSE "return"    \* `break`
                  /\ no_improvement_count' = acc.no_improvement_count
                  /\ UNCHANGED <<s_current_level, s_level_count>>
             ELSE /\ s_current_level' = pruned
                  /\ s_level_count' = s_level_count + 1
                  /\ no_improvement_count' =
                         IF /\ stalled /\ ~extended
                            /\ s_level_count + 1 > StallLevels
                            /\ high /\ s_level_count + 1 < StallLevelsHigh
                         THEN 0 ELSE acc.no_improvement_count
                  /\ s_pc' =
                         IF stalled /\ extended THEN "return"
                         ELSE IF /\ stalled /\ s_level_count + 1 > StallLevels
                                 /\ ~(high /\ s_level_count + 1 < StallLevelsHigh)
                         THEN "return"
                         ELSE IF loop_continues(pruned, s_level_count + 1,
                                                max_levels)
                         THEN "loop" ELSE "return"
    /\ UNCHANGED <<seed_node, s_dimension, s_memory_limit, max_levels,
                   s_result>>

\* lines 479-507: return the best node only if it is longer than the seed
SeedReturn ==
    /\ s_pc = "return"
    /\ s_result' = search_outcome(s_best_snake, s_max_length, seed_node[1])
    /\ s_pc' = "returned"
    /\ UNCHANGED <<seed_node, s_dimension, s_memory_limit, max_levels,
                   s_current_level, s_best_snake, s_max_length, s_level_count,
                   no_improvement_count, s_generated, s_iterations>>

SeedNext == SeedEntry \/ SeedLevel \/ SeedReturn

\* the seed sequences of the direct calls
SeedValues(dim) ==
    IF dim <= MaxSeedDim THEN 0..(dim - 1) ELSE {0, dim - 2, dim - 1}

SeedPads(dim) ==
    IF dim <= MaxSeedDim THEN {0, ShortPad, LongPad} ELSE {0, ShortPad, MidPad}

SeedSequences(dim) ==
    {[i \in 1..pad |-> 0] \o tail :
        pad \in SeedPads(dim), tail \in SeqsUpTo(SeedValues(dim), MaxTailLen)}

\* a caller builds a seed node and calls pruned_bfs_search_from_seed with
\* the node's dimension or, mistakenly, the next one
SeedInit ==
    /\ s_dimension \in (1..MaxSeedDim) \cup {HighDimension, HighDimension + 1}
    /\ \E sd \in {s_dimension, s_dimension - 1} :
         /\ sd \in (1..MaxSeedDim) \cup {HighDimension}
         /\ \E seq \in SeedSequences(sd) : seed_node = <<SnakeNode(seq, sd)>>
    /\ s_memory_limit \in MemoryBudgets
    /\ max_levels \in 0..MaxLevels
    /\ s_current_level = <<>>
    /\ s_best_snake = <<>>
    /\ s_max_length = 0
    /\ s_level_count = 0
    /\ no_improvement_count = 0
    /\ s_pc = "entry"
    /\ s_result = <<>>
    /\ s_generated = 0
    /\ s_iterations = 0

(***************************************************************************)
(* search/priming.py: prime_search as a state machine, one step per        *)
(* iteration of its while loop up to the call of the seeded search, and    *)
(* one from the return of that call.                                       *)
(***************************************************************************)
PrimeIdle ==
    /\ lower_dimension_snake = <<>>
    /\ target_dimension = 0
    /\ p_memory_limit = 0
    /\ current_snake = <<>>
    /\ current_dim = 0
    /\ p_pc = "idle"
    /\ p_result = <<>>
    /\ p_increments = 0
    /\ p_last_output = <<>>

PrimeInit ==
    /\ lower_dimension_snake \in SeqsUpTo(-1..MaxPrimeVal, MaxPrimeLen)
    /\ target_dimension \in 0..MaxTarget
    /\ p_memory_limit \in MemoryBudgets
    /\ current_snake = <<>>
    /\ current_dim = 0
    /\ p_pc = "start"
    /\ p_result = <<>>
    /\ p_increments = 0
    /\ p_last_output = lower_dimension_snake

\* lines 65-71
PrimeStart ==
    /\ p_pc = "start"
    /\ current_snake' = lower_dimension_snake
    /\ current_dim' = detect_dimension(lower_dimension_snake)
    /\ IF detect_dimension(lower_dimension_snake) >= target_dimension
       THEN /\ p_result' = lower_dimension_snake
            /\ p_pc' = "done"
       ELSE /\ p_result' = p_result
            /\ p_pc' = "loop"
    /\ UNCHANGED <<lower_dimension_snake, target_dimension, p_memory_limit,
                   p_increments, p_last_output, seed_vars>>

\* lines 73-105: build the seed node in the next dimension and call the
\* seeded search
PrimeIncrement ==
    /\ p_pc = "loop"
    /\ p_increments' = p_increments + 1
    /\ IF SnakeNode_raises(current_snake, current_dim + 1)
       THEN /\ p_result' = current_snake
            /\ p_pc' = "done"
            /\ UNCHANGED seed_vars
       ELSE /\ SeedCall(SnakeNode(current_snake, current_dim + 1),
                        current_dim + 1,
                        prime_search_memory(current_dim + 1, p_memory_limit),
                        prime_max_levels(current_dim + 1))
            /\ p_pc' = "call"
            /\ p_result' = p_result
    /\ UNCHANGED <<lower_dimension_snake, target_dimension, p_memory_limit,
                   current_snake, current_dim, p_last_output>>

\* lines 107-129: take the outcome of the seeded search
PrimeAfterSearch ==
    /\ p_pc = "call"
    /\ s_pc = "returned"
    /\ LET out == after_search(s_result, current_snake, current_dim)
           finished == out.returns \/ ~(out.current_dim < target_dimension)
       IN /\ current_snake' = out.current_snake
          /\ current_dim' = out.current_dim
          /\ p_last_output' = IF out.returns THEN p_last_output
                              ELSE out.current_snake
          /\ p_result' = IF finished THEN out.current_snake ELSE p_result
          /\ p_pc' = IF finished THEN "done" ELSE "loop"
    /\ s_pc' = "idle"
    /\ UNCHANGED <<lower_dimension_snake, target_dimension, p_memory_limit,
                   p_increments>>
    /\ UNCHANGED <<seed_node, s_dimension, s_memory_limit, max_levels,
                   s_current_level, s_best_snake, s_max_length, s_level_count,
                   no_improvement_count, s_result, s_generated, s_iterations>>

PrimeNext ==
    \/ PrimeStart
    \/ PrimeIncrement
    \/ PrimeAfterSearch
    \/ (SeedNext /\ UNCHANGED prime_vars)

(***************************************************************************)
(* core/validation.py driven by a caller: one call of validate_snake or of *)
(* validate_transition_sequence.                                           *)
(***************************************************************************)
ValidateInit ==
    /\ \/ /\ v_call = "validate_snake"
          /\ v_vertices \in SeqsUpTo(0..(2 ^ MaxValDim - 1), MaxValLen)
          /\ v_seq = <<>>
          /\ v_dim = 0
       \/ /\ v_call = "validate_transition_sequence"
          /\ v_vertices = <<>>
          /\ v_seq \in SeqsUpTo(-1..MaxValDim, MaxValLen)
          /\ v_dim \in 0..MaxValDim
    /\ v_outcome = <<>>
    /\ v_pc = "call"

ValidateIdle ==
    /\ v_call = "none"
    /\ v_vertices = <<>>
    /\ v_seq = <<>>
    /\ v_dim = 0
    /\ v_outcome = <<>>
    /\ v_pc = "idle"

ValidateSnake ==
    /\ v_pc = "call"
    /\ v_call = "validate_snake"
    /\ v_outcome' = <<validate_snake(v_vertices),
                      validate_snake_message(v_vertices)>>
    /\ v_pc' = "returned"
    /\ UNCHANGED <<v_call, v_vertices, v_seq, v_dim>>

ValidateTransitionSequence ==
    /\ v_pc = "call"
    /\ v_call = "validate_transition_sequence"
    /\ IF validate_transition_sequence_raises(v_seq, v_dim)
       THEN /\ v_pc' = "raised"
            /\ v_outcome' = v_outcome
       ELSE /\ v_pc' = "returned"
            /\ v_outcome' =
                  <<validate_transition_sequence(v_seq, v_dim),
                    validate_transition_sequence_message(v_seq, v_dim)>>
    /\ UNCHANGED <<v_call, v_vertices, v_seq, v_dim>>

ValidateNext == ValidateSnake \/ ValidateTransitionSequence

(***************************************************************************)
(* utils/canonical.py driven by a caller: one call of is_canonical or of   *)
(* get_legal_next_dimensions.                                              *)
(***************************************************************************)
CanonicalInit ==
    /\ k_call \in {"is_canonical", "get_legal_next_dimensions"}
    /\ k_seq \in SeqsUpTo(-1..MaxCanonVal, MaxCanonLen)
    /\ k_result = <<>>
    /\ k_pc = "call"

CanonicalIdle ==
    /\ k_call = "none"
    /\ k_seq = <<>>
    /\ k_result = <<>>
    /\ k_pc = "idle"

IsCanonical ==
    /\ k_pc = "call"
    /\ k_call = "is_canonical"
    /\ k_result' = <<is_canonical(k_seq)>>
    /\ k_pc' = "returned"
    /\ UNCHANGED <<k_call, k_seq>>

GetLegalNextDimensions ==
    /\ k_pc = "call"
    /\ k_call = "get_legal_next_dimensions"
    /\ k_result' = <<get_legal_next_dimensions(k_seq)>>
    /\ k_pc' = "returned"
    /\ UNCHANGED <<k_call, k_seq>>

CanonicalNext == IsCanonical \/ GetLegalNextDimensions

(***************************************************************************)
(* core/hypercube.py driven by a caller: HypercubeBitmap(b_dimension),     *)
(* then calls of set_bit, clear_bit, get_bit, clear_all and copy on the    *)
(* object and on its copies.                                               *)
(***************************************************************************)
BitmapInit ==
    /\ b_dimension \in 0..MaxBitDim
    /\ b_arrays = <<>>
    /\ b_bitmaps = <<>>
    /\ b_call = "none"
    /\ b_target = 0
    /\ b_vertex = 0
    /\ b_outcome = "none"
    /\ b_calls = 0
    /\ b_marked = <<>>

BitmapIdle ==
    /\ b_dimension = 0
    /\ b_arrays = <<>>
    /\ b_bitmaps = <<>>
    /\ b_call = "idle"
    /\ b_target = 0
    /\ b_vertex = 0
    /\ b_outcome = "none"
    /\ b_calls = 0
    /\ b_marked = <<>>

\* the object o with the content of its array
bitmap_of(o) ==
    [dimension    |-> b_bitmaps[o].dimension,
     num_vertices |-> b_bitmaps[o].num_vertices,
     bits         |-> b_arrays[b_bitmaps[o].bitmap]]

\* the vertices handed to set_bit, clear_bit and get_bit: the ends of the
\* range, one inside and the first on either side
BitVertices(bm) == {-1, 0, 1, bm.num_vertices - 1, bm.num_vertices}

\* HypercubeBitmap.__init__
BitmapNew ==
    /\ b_call = "none"
    /\ b_call' = "__init__"
    /\ IF HypercubeBitmap_raises(b_dimension)
       THEN /\ b_outcome' = "ValueError"
            /\ UNCHANGED <<b_arrays, b_bitmaps, b_marked>>
       ELSE /\ b_outcome' = "ok"
            /\ b_arrays' = <<HypercubeBitmap(b_dimension).bits>>
            /\ b_bitmaps' =
                  <<[dimension    |-> b_dimension,
                     num_vertices |-> HypercubeBitmap(b_dimension).num_vertices,
                     bitmap       |-> 1]>>
            /\ b_marked' = <<{}>>
    /\ UNCHANGED <<b_dimension, b_target, b_vertex, b_calls>>

\* a call on object o is made
BitmapCall(o, name, vertex) ==
    /\ b_outcome \in {"ok", "IndexError", "True", "False"}
    /\ b_calls < MaxBitCalls
    /\ b_calls' = b_calls + 1
    /\ b_call' = name
    /\ b_target' = o
    /\ b_vertex' = vertex
    /\ UNCHANGED b_dimension

SetBit(o, vertex) ==
    /\ BitmapCall(o, "set_bit", vertex)
    /\ IF vertex_out_of_range(bitmap_of(o), vertex)
       THEN /\ b_outcome' = "IndexError"
            /\ UNCHANGED <<b_arrays, b_marked>>
       ELSE /\ b_outcome' = "ok"
            /\ b_arrays' = [b_arrays EXCEPT ![b_bitmaps[o].bitmap] =
                               set_bit(bitmap_of(o), vertex).bits]
            /\ b_marked' = [b_marked EXCEPT ![o] = @ \cup {vertex}]
    /\ UNCHANGED b_bitmaps

ClearBit(o, vertex) ==
    /\ BitmapCall(o, "clear_bit", vertex)
    /\ IF vertex_out_of_range(bitmap_of(o), vertex)
       THEN /\ b_outcome' = "IndexError"
            /\ UNCHANGED <<b_arrays, b_marked>>
       ELSE /\ b_outcome' = "ok"
            /\ b_arrays' = [b_arrays EXCEPT ![b_bitmaps[o].bitmap] =
                               clear_bit(bitmap_of(o), vertex).bits]
            /\ b_marked' = [b_marked EXCEPT ![o] = @ \ {vertex}]
    /\ UNCHANGED b_bitmaps

GetBit(o, vertex) ==
    /\ BitmapCall(o, "get_bit", vertex)
    /\ b_outcome' = IF vertex_out_of_range(bitmap_of(o), vertex)
                    THEN "IndexError"
                    ELSE IF get_bit(bitmap_of(o), vertex) THEN "True"
                    ELSE "False"
    /\ UNCHANGED <<b_arrays, b_bitmaps, b_marked>>

ClearAll(o) ==
    /\ BitmapCall(o, "clear_all", 0)
    /\ b_outcome' = "ok"
    /\ b_arrays' = [b_arrays EXCEPT ![b_bitmaps[o].bitmap] =
                       clear_all(bitmap_of(o)).bits]
    /\ b_marked' = [b_marked EXCEPT ![o] = {}]
    /\ UNCHANGED b_bitmaps

\* copy(): a new object of the same dimension whose array is a copy
CopyBitmap(o) ==
    /\ BitmapCall(o, "copy", 0)
    /\ Len(b_bitmaps) < MaxBitmaps
    /\ b_outcome' = "ok"
    /\ LET a == copy_array(b_arrays, b_bitmaps[o].bitmap)
       IN /\ b_arrays' = IF a > Len(b_arrays)
                         THEN Append(b_arrays, bitmap_of(o).bits)
                         ELSE b_arrays
          /\ b_bitmaps' =
                Append(b_bitmaps,
                       [dimension    |-> bitmap_of(o).dimension,
                        num_vertices |->
                            HypercubeBitmap(bitmap_of(o).dimension).num_vertices,
                        bitmap       |-> a])
    /\ b_marked' = Append(b_marked, b_marked[o])

BitmapNext ==
    \/ BitmapNew
    \/ \E o \in 1..Len(b_bitmaps) :
          \/ \E vertex \in BitVertices(bitmap_of(o)) :
                SetBit(o, vertex) \/ ClearBit(o, vertex) \/ GetBit(o, vertex)
          \/ ClearAll(o)
          \/ CopyBitmap(o)

(***************************************************************************)
(* The hex text driven by a caller: export_snake writes x_seq, the text    *)
(* may be put in upper case and have other characters inserted, and        *)
(* parse_hex_transition_string reads it.                                   *)
(***************************************************************************)
HexInit ==
    /\ x_seq \in SeqsUpTo(0..MaxHexVal, MaxHexLen)
    /\ x_string = <<>>
    /\ x_inserted = 0
    /\ x_parsed = <<>>
    /\ x_pc = "sequence"

HexIdle ==
    /\ x_seq = <<>>
    /\ x_string = <<>>
    /\ x_inserted = 0
    /\ x_parsed = <<>>
    /\ x_pc = "idle"

\* characters that are not hex digits in either case
NonHexChars == {",", " ", "g", "G", "-"}

ExportSnake ==
    /\ x_pc = "sequence"
    /\ x_string' = export_hex_string(x_seq)
    /\ x_pc' = "text"
    /\ UNCHANGED <<x_seq, x_inserted, x_parsed>>

\* the character at position i is put in upper case
UpperCase(i) ==
    /\ x_pc = "text"
    /\ char_upper(x_string[i]) # x_string[i]
    /\ x_string' = [x_string EXCEPT ![i] = char_upper(@)]
    /\ UNCHANGED <<x_seq, x_inserted, x_parsed, x_pc>>

\* a character that is not a hex digit is inserted after position i
InsertChar(i, ch) ==
    /\ x_pc = "text"
    /\ x_inserted < MaxHexInserts
    /\ x_inserted' = x_inserted + 1
    /\ x_string' = SubSeq(x_string, 1, i) \o <<ch>>
                      \o SubSeq(x_string, i + 1, Len(x_string))
    /\ UNCHANGED <<x_seq, x_parsed, x_pc>>

ParseHex ==
    /\ x_pc = "text"
    /\ x_parsed' = parse_hex_transition_string(x_string)
    /\ x_pc' = "parsed"
    /\ UNCHANGED <<x_seq, x_string, x_inserted>>

HexNext ==
    \/ ExportSnake
    \/ \E i \in 1..Len(x_string) : UpperCase(i)
    \/ \E i \in 0..Len(x_string) : \E ch \in NonHexChars : InsertChar(i, ch)
    \/ ParseHex

(***************************************************************************)
(* search/bfs_pruned.py: prune_by_fitness called on a list of nodes, on    *)
(* its own and as the prune step of a search level.                        *)
(***************************************************************************)
\* the nodes a list is drawn from
PruneNodes(dim) ==
    {SnakeNode(seq, dim) :
        seq \in {q \in SeqsUpTo(0..(dim - 1), MaxPruneSeqLen) :
                    q = <<>> \/ is_canonical(q)}}

PruneBudgets == {k * BudgetStep : k \in 0..MaxBudgetNodes}

PruneInit ==
    /\ pr_dim \in 1..MaxPruneDim
    /\ pr_nodes \in SeqsUpTo(PruneNodes(pr_dim), MaxPruneNodes)
    /\ pr_limit \in PruneBudgets
    /\ pr_result = <<>>
    /\ pr_pc = "call"
    /\ pr_input = pr_nodes

PruneIdle ==
    /\ pr_dim = 1
    /\ pr_nodes = <<>>
    /\ pr_limit = 0
    /\ pr_result = <<>>
    /\ pr_pc = "idle"
    /\ pr_input = <<>>

\* prune_by_fitness(pr_nodes, pr_limit)
PruneCall ==
    /\ pr_pc = "call"
    /\ pr_result' = prune_by_fitness(pr_nodes, pr_limit)
    /\ pr_nodes' = prune_by_fitness_nodes(pr_nodes, pr_limit)
    /\ pr_pc' = "returned"
    /\ UNCHANGED <<pr_dim, pr_limit, pr_input>>

\* pruned_bfs_search, lines 91-98: the prune step of a level whose
\* next_level is pr_nodes
PruneStep ==
    /\ pr_pc = "call"
    /\ IF estimate_memory_usage(pr_nodes) > pr_limit
       THEN /\ pr_result' = prune_by_fitness(pr_nodes, pr_limit)
            /\ pr_nodes' = prune_by_fitness_nodes(pr_nodes, pr_limit)
       ELSE /\ pr_result' = pr_nodes
            /\ pr_nodes' = pr_nodes
    /\ pr_pc' = "stepped"
    /\ UNCHANGED <<pr_dim, pr_limit, pr_input>>

PruneNext == PruneCall \/ PruneStep

(***************************************************************************)
(* search/parallel.py: parallel_search and expand_nodes_worker.  The       *)
(* coordinator and the worker tasks of a level are processes; a worker     *)
(* task is a record with its position, the index of the node and of the    *)
(* legal dimension it looks at next, its list expanded and the child it    *)
(* has just created.                                                       *)
(***************************************************************************)
\* best_snake_lock when no process holds it, and when the coordinator does;
\* worker task w holds it as w
Unlocked == 0
Coordinator == -1

\* line 56
chunk_size(level, n_workers) ==
    IF Len(level) \div n_workers > 1 THEN Len(level) \div n_workers ELSE 1

\* mutant: the range of line 59 runs to len(current_level) + 1
make_chunks_one_more(level, size) ==
    [c \in 1..(Len(level) \div size + 1) |->
        SubSeq(level, (c - 1) * size + 1,
               IF c * size < Len(level) THEN c * size ELSE Len(level))]

\* lines 57-60: current_level[i:i + chunk_size] for i in
\* range(0, len(current_level), chunk_size)
make_chunks(level, size) ==
    [c \in 1..((Len(level) + size - 1) \div size) |->
        SubSeq(level, (c - 1) * size + 1,
               IF c * size < Len(level) THEN c * size ELSE Len(level))]

\* expand_nodes_worker, lines 148-152: the next pair (node, legal dimension)
\* at or after (i, k) that is a valid extension
RECURSIVE scan(_, _, _)
scan(nodes, i, k) ==
    IF i > Len(nodes) THEN [found |-> FALSE, i |-> i, k |-> k]
    ELSE LET legal_dims ==
                 get_legal_next_dimensions(nodes[i].transition_sequence)
         IN IF k > Len(legal_dims) THEN scan(nodes, i + 1, 1)
            ELSE IF is_valid_extension(nodes[i], legal_dims[k])
            THEN [found |-> TRUE, i |-> i, k |-> k]
            ELSE scan(nodes, i, k + 1)

\* lines 73-75: the lists returned by the tasks 1..w, concatenated
RECURSIVE extend_results(_, _)
extend_results(tasks, w) ==
    IF w = 0 THEN <<>>
    ELSE extend_results(tasks, w - 1) \o tasks[w].expanded

\* The lists that starmap returns (line 64) reach the coordinator pickled:
\* their nodes are rebuilt there, the transition list and the bitmap array
\* allocated with room to grow, and sys.getsizeof (bfs_pruned.py, lines
\* 231-236) reports the allocation.  The slots CPython allocates for a
\* rebuilt list of n items and for a rebuilt array of n_words words:
list_allocated(n) ==
    IF n = 0 THEN 0
    ELSE LET grown == ((n + n \div 8 + 6) \div 4) * 4
         IN IF n > grown - n THEN ((n + 3) \div 4) * 4 ELSE grown

array_allocated(n_words) == n_words + n_words \div 16 + 3

\* estimate_node_size of a node received from the pool
received_node_size(node) ==
    LET transition_size ==
            ListOverhead
            + ListSlot * list_allocated(Len(node.transition_sequence))
            + Len(node.transition_sequence) * IntSize
        bitmap_size ==
            ArrayOverhead
            + WordBytes * array_allocated(num_words(node.vertices_bitmap))
            + num_words(node.vertices_bitmap) * WordBytes
    IN transition_size + bitmap_size + ObjectOverhead

\* estimate_memory_usage of a list of nodes received from the pool
received_memory_usage(nodes) ==
    IF nodes = <<>> THEN 0
    ELSE Len(nodes) * received_node_size(nodes[1])

\* prune_by_fitness of a list of nodes received from the pool
prune_received(nodes, limit) ==
    IF nodes = <<>> THEN nodes
    ELSE LET bytes_per_node == received_node_size(nodes[1])
             max_nodes == limit \div bytes_per_node
         IN IF Len(nodes) <= max_nodes THEN nodes
            ELSE Prefix(sort_by_fitness(nodes, Len(nodes)), max_nodes)

\* lines 42-52: the state on entry to the while loop
ParallelInit ==
    /\ q_dimension \in 1..MaxParDim
    /\ q_memory_limit \in MemoryBudgets
    /\ num_workers \in 1..MaxWorkers
    /\ q_current_level = <<SnakeNode(<<>>, q_dimension)>>
    /\ q_next_level = <<>>
    /\ q_best_snake = <<>>
    /\ q_max_length = 0
    /\ q_level_count = 0
    /\ q_pc = "split"
    /\ q_result = <<>>
    /\ best_snake_shared = [length |-> 0, sequence |-> <<>>]
    /\ best_snake_lock = Unlocked
    /\ chunks = <<>>
    /\ workers = <<>>
    /\ unlocked_access = FALSE
    /\ stored_decreased = FALSE
    /\ q_generated = 0

\* the nodes a frontier is drawn from
FrontierNodes(dim) ==
    {SnakeNode(seq, dim) :
        seq \in {q \in SeqsUpTo(0..(dim - 1), MaxFrontierSeqLen) :
                    q = <<>> \/ is_canonical(q)}}

\* the while loop entered with any frontier: the workers of one level on
\* any chunks
LevelInit ==
    /\ q_dimension \in 1..MaxFrontierDim
    /\ q_memory_limit = 1024 * 1024 * 1024
    /\ num_workers \in 1..MaxWorkers
    /\ q_current_level \in
           SeqsUpTo(FrontierNodes(q_dimension), MaxFrontier) \ {<<>>}
    /\ q_next_level = <<>>
    /\ q_best_snake = <<>>
    /\ q_max_length = 0
    /\ q_level_count = 0
    /\ q_pc = "split"
    /\ q_result = <<>>
    /\ best_snake_shared = [length |-> 0, sequence |-> <<>>]
    /\ best_snake_lock = Unlocked
    /\ chunks = <<>>
    /\ workers = <<>>
    /\ unlocked_access = FALSE
    /\ stored_decreased = FALSE
    /\ q_generated = 0

\* parallel_search is not running
ParallelIdle ==
    /\ q_dimension = 1
    /\ q_memory_limit = 0
    /\ num_workers = 1
    /\ q_current_level = <<>>
    /\ q_next_level = <<>>
    /\ q_best_snake = <<>>
    /\ q_max_length = 0
    /\ q_level_count = 0
    /\ q_pc = "idle"
    /\ q_result = <<>>
    /\ best_snake_shared = [length |-> 0, sequence |-> <<>>]
    /\ best_snake_lock = Unlocked
    /\ chunks = <<>>
    /\ workers = <<>>
    /\ unlocked_access = FALSE
    /\ stored_decreased = FALSE
    /\ q_generated = 0

\* lines 54-70: split the level into chunks and hand one task per chunk to
\* the pool
Split ==
    /\ q_pc = "split"
    /\ q_current_level # <<>>
    /\ chunks' = make_chunks(q_current_level,
                             chunk_size(q_current_level, num_workers))
    /\ workers' = [w \in 1..Len(chunks') |->
                      [pc |-> "queued", i |-> 1, k |-> 1,
                       expanded |-> <<>>, child |-> <<>>]]
    /\ q_pc' = "starmap"
    /\ UNCHANGED <<q_dimension, q_memory_limit, num_workers, q_current_level,
                   q_next_level, q_best_snake, q_max_length, q_level_count,
                   q_result, best_snake_shared, best_snake_lock,
                   unlocked_access, stored_decreased,
                   q_generated>>

\* the tasks a process of the pool is running
Running == {w \in 1..Len(workers) : workers[w].pc \notin {"queued", "finished"}}

coordinator_vars ==
    <<q_dimension, q_memory_limit, num_workers, q_current_level,
      q_next_level, q_best_snake, q_max_length, q_level_count, q_pc,
      q_result, chunks>>

\* Pool(num_workers): a free process of the pool takes the next task
WorkerStart(w) ==
    /\ q_pc = "starmap"
    /\ workers[w].pc = "queued"
    /\ \A v \in 1..(w - 1) : workers[v].pc # "queued"
    /\ Cardinality(Running) < num_workers
    /\ workers' = [workers EXCEPT ![w].pc = "scan"]
    /\ UNCHANGED <<coordinator_vars, best_snake_shared, best_snake_lock,
                   unlocked_access, stored_decreased,
                   q_generated>>

\* lines 148-158: up to the next child created and appended, or lines 148
\* and 166 when there is none
WorkerScan(w) ==
    /\ workers[w].pc = "scan"
    /\ LET found == scan(chunks[w], workers[w].i, workers[w].k)
       IN IF found.found
          THEN LET node == chunks[w][found.i]
                   legal_dims ==
                       get_legal_next_dimensions(node.transition_sequence)
                   child == create_child(node, legal_dims[found.k])
               IN /\ workers' =
                         [workers EXCEPT
                             ![w] = [pc |-> "acquire",
                                     i |-> found.i,
                                     k |-> found.k + 1,
                                     expanded |-> Append(@.expanded, child),
                                     child |-> <<child>>]]
                  /\ q_generated' = IF get_length(child) > q_generated
                                    THEN get_length(child) ELSE q_generated
          ELSE /\ workers' = [workers EXCEPT ![w].pc = "finished",
                                             ![w].child = <<>>]
               /\ q_generated' = q_generated
    /\ UNCHANGED <<coordinator_vars, best_snake_shared, best_snake_lock,
                   unlocked_access,
                   stored_decreased>>

\* mutant: the worker goes on without the lock
WorkerAcquireNoLock(w) ==
    /\ workers[w].pc = "acquire"
    /\ workers' = [workers EXCEPT ![w].pc = "compare"]
    /\ UNCHANGED <<coordinator_vars, best_snake_shared, best_snake_lock,
                   unlocked_access, stored_decreased,
                   q_generated>>

\* line 159: with best_snake_lock, entered
WorkerAcquire(w) ==
    /\ workers[w].pc = "acquire"
    /\ best_snake_lock = Unlocked
    /\ best_snake_lock' = w
    /\ workers' = [workers EXCEPT ![w].pc = "compare"]
    /\ UNCHANGED <<coordinator_vars, best_snake_shared, unlocked_access,
                   stored_decreased, q_generated>>

\* lines 160-161: read the stored length and, when the child is longer,
\* write its length
WorkerCompare(w) ==
    /\ workers[w].pc = "compare"
    /\ unlocked_access' = (unlocked_access \/ best_snake_lock # w)
    /\ IF get_length(workers[w].child[1]) > best_snake_shared.length
       THEN /\ best_snake_shared' =
                   [best_snake_shared EXCEPT
                       !.length = get_length(workers[w].child[1])]
            /\ workers' = [workers EXCEPT ![w].pc = "write_sequence"]
       ELSE /\ best_snake_shared' = best_snake_shared
            /\ workers' = [workers EXCEPT ![w].pc = "release"]
    /\ stored_decreased' =
           (stored_decreased
            \/ best_snake_shared'.length < best_snake_shared.length)
    /\ UNCHANGED <<coordinator_vars, best_snake_lock, q_generated>>

\* line 162
WorkerWriteSequence(w) ==
    /\ workers[w].pc = "write_sequence"
    /\ unlocked_access' = (unlocked_access \/ best_snake_lock # w)
    /\ best_snake_shared' =
           [best_snake_shared EXCEPT
               !.sequence = workers[w].child[1].transition_sequence]
    /\ workers' = [workers EXCEPT ![w].pc = "release"]
    /\ UNCHANGED <<coordinator_vars, best_snake_lock, stored_decreased,
                   q_generated>>

\* line 159: with best_snake_lock, left
WorkerRelease(w) ==
    /\ workers[w].pc = "release"
    /\ best_snake_lock = w
    /\ best_snake_lock' = Unlocked
    /\ workers' = [workers EXCEPT ![w].pc = "scan"]
    /\ UNCHANGED <<coordinator_vars, best_snake_shared, unlocked_access,
                   stored_decreased, q_generated>>

worker_vars == <<chunks, workers, q_generated>>

\* lines 64-75: starmap returns when every task has, and the lists are
\* concatenated in the order of the chunks
Collect ==
    /\ q_pc = "starmap"
    /\ \A w \in 1..Len(workers) : workers[w].pc = "finished"
    /\ q_next_level' = extend_results(workers, Len(workers))
    /\ q_pc' = "acquire"
    /\ UNCHANGED <<q_dimension, q_memory_limit, num_workers, q_current_level,
                   q_best_snake, q_max_length, q_level_count, q_result,
                   best_snake_shared, best_snake_lock, unlocked_access,
                   stored_decreased, worker_vars>>

\* line 78: with best_snake_lock, entered
CoordinatorAcquire ==
    /\ q_pc = "acquire"
    /\ best_snake_lock = Unlocked
    /\ best_snake_lock' = Coordinator
    /\ q_pc' = "update"
    /\ UNCHANGED <<q_dimension, q_memory_limit, num_workers, q_current_level,
                   q_next_level, q_best_snake, q_max_length, q_level_count,
                   q_result, best_snake_shared, unlocked_access,
                   stored_decreased, worker_vars>>

\* lines 79-85: the best is rebuilt from the stored sequence
CoordinatorUpdate ==
    /\ q_pc = "update"
    /\ unlocked_access' = (unlocked_access \/ best_snake_lock # Coordinator)
    /\ IF best_snake_shared.length > q_max_length
       THEN /\ q_max_length' = best_snake_shared.length
            /\ q_best_snake' =
                   <<SnakeNode(best_snake_shared.sequence, q_dimension)>>
       ELSE UNCHANGED <<q_max_length, q_best_snake>>
    /\ q_pc' = "release"
    /\ UNCHANGED <<q_dimension, q_memory_limit, num_workers, q_current_level,
                   q_next_level, q_level_count, q_result, best_snake_shared,
                   best_snake_lock, stored_decreased, worker_vars>>

\* line 78: with best_snake_lock, left
CoordinatorRelease ==
    /\ q_pc = "release"
    /\ best_snake_lock' = Unlocked
    /\ q_pc' = "prune"
    /\ UNCHANGED <<q_dimension, q_memory_limit, num_workers, q_current_level,
                   q_next_level, q_best_snake, q_max_length, q_level_count,
                   q_result, best_snake_shared, unlocked_access,
                   stored_decreased, worker_vars>>

\* lines 92-113: prune, advance to the next level, leave the loop when the
\* new frontier is empty; the nodes of next_level are the ones received
\* from the pool
PruneLevel ==
    /\ q_pc = "prune"
    /\ LET pruned == IF received_memory_usage(q_next_level) > q_memory_limit
                     THEN prune_received(q_next_level, q_memory_limit)
                     ELSE q_next_level
       IN /\ q_current_level' = pruned
          /\ q_pc' = IF pruned = <<>> THEN "return" ELSE "split"
    /\ q_next_level' = <<>>
    /\ q_level_count' = q_level_count + 1
    /\ UNCHANGED <<q_dimension, q_memory_limit, num_workers, q_best_snake,
                   q_max_length, q_result, best_snake_shared, best_snake_lock,
                   unlocked_access, stored_decreased, worker_vars>>

\* line 115
ParallelReturn ==
    /\ q_pc = "return"
    /\ q_result' = q_best_snake
    /\ q_pc' = "done"
    /\ UNCHANGED <<q_dimension, q_memory_limit, num_workers, q_current_level,
                   q_next_level, q_best_snake, q_max_length, q_level_count,
                   best_snake_shared, best_snake_lock, unlocked_access,
                   stored_decreased, worker_vars>>

ParallelNext ==
    \/ Split
    \/ \E w \in 1..Len(workers) :
           \/ WorkerStart(w)
           \/ WorkerScan(w)
           \/ WorkerAcquire(w)
           \/ WorkerCompare(w)
           \/ WorkerWriteSequence(w)
           \/ WorkerRelease(w)
    \/ Collect
    \/ CoordinatorAcquire
    \/ CoordinatorUpdate
    \/ CoordinatorRelease
    \/ PruneLevel
    \/ ParallelReturn

\* pruned_bfs_search, lines 50-116: its frontier, best and max_length after
\* k passes of the while loop
RECURSIVE bfs_levels(_, _, _)
bfs_levels(dim, limit, k) ==
    IF k = 0
    THEN [current_level |-> <<SnakeNode(<<>>, dim)>>,
          best_snake |-> <<>>,
          max_length |-> 0]
    ELSE LET before == bfs_levels(dim, limit, k - 1)
             acc == expand_level(before.current_level,
                                 Len(before.current_level),
                                 [next_level |-> <<>>,
                                  best_snake |-> before.best_snake,
                                  max_length |-> before.max_length])
             pruned == IF estimate_memory_usage(acc.next_level) > limit
                       THEN prune_by_fitness(acc.next_level, limit)
                       ELSE acc.next_level
         IN [current_level |-> pruned,
             best_snake |-> acc.best_snake,
             max_length |-> acc.max_length]

\* no search helper is being called on its own
HelpersIdle == PruneIdle /\ ParallelIdle

\* no library function is being called on its own
LibIdle ==
    ValidateIdle /\ CanonicalIdle /\ BitmapIdle /\ HexIdle /\ HelpersIdle

(***************************************************************************)
(* Specifications.                                                         *)
(***************************************************************************)
Init == BfsInit /\ NodeIdle /\ CodecIdle /\ SeedIdle /\ PrimeIdle /\ LibIdle

Next ==
    /\ BfsNext
    /\ UNCHANGED <<node_vars, codec_vars, seed_vars, prime_vars, lib_vars>>

\* pruned_bfs_search for every dimension and budget of the bounds
Spec == Init /\ [][Next]_vars

\* a step of the thread of pruned_bfs_search, seen from its position and its
\* level counter: every step of BfsNext moves one of the two, and BfsNext
\* is enabled at "prune" and "return" and, the frontier being non-empty
\* there, at "expand"
BfsStep ==
    /\ pc \in {"expand", "prune", "return"}
    /\ pc' \in {"expand", "prune", "return", "done"}
    /\ level_count' \in {level_count, level_count + 1}
    /\ <<pc', level_count'>> # <<pc, level_count>>

\* the same, the single thread of pruned_bfs_search taking its next step
\* for as long as it has not returned
SpecFair == Spec /\ WF_<<pc, level_count>>(BfsStep)

InitNode ==
    NodeInit /\ BfsIdle /\ CodecIdle /\ SeedIdle /\ PrimeIdle /\ LibIdle

NextNode ==
    /\ NodeNext
    /\ UNCHANGED <<bfs_vars, codec_vars, seed_vars, prime_vars, lib_vars>>

\* SnakeNode construction and extension
SpecNode == InitNode /\ [][NextNode]_vars

InitCodec ==
    CodecInit /\ BfsIdle /\ NodeIdle /\ SeedIdle /\ PrimeIdle /\ LibIdle

NextCodec ==
    /\ CodecNext
    /\ UNCHANGED <<bfs_vars, node_vars, seed_vars, prime_vars, lib_vars>>

\* the transition / vertex codec
SpecCodec == InitCodec /\ [][NextCodec]_vars

InitPrime ==
    /\ BfsIdle /\ NodeIdle /\ CodecIdle /\ LibIdle
    /\ \/ PrimeInit /\ SeedIdle
       \/ PrimeIdle /\ SeedInit

NextPrime ==
    PrimeNext /\ UNCHANGED <<bfs_vars, node_vars, codec_vars, lib_vars>>

\* prime_search, and pruned_bfs_search_from_seed called directly
SpecPrime == InitPrime /\ [][NextPrime]_vars

\* the engines and the objects above are not running
EnginesIdle ==
    BfsIdle /\ NodeIdle /\ CodecIdle /\ SeedIdle /\ PrimeIdle /\ HelpersIdle

engine_vars ==
    <<bfs_vars, node_vars, codec_vars, seed_vars, prime_vars, helper_vars>>

InitValidate ==
    ValidateInit /\ EnginesIdle /\ CanonicalIdle /\ BitmapIdle /\ HexIdle

NextValidate ==
    /\ ValidateNext
    /\ UNCHANGED <<engine_vars, canonical_vars, bitmap_vars, hex_vars>>

\* validate_snake and validate_transition_sequence
SpecValidate == InitValidate /\ [][NextValidate]_vars

InitCanonical ==
    CanonicalInit /\ EnginesIdle /\ ValidateIdle /\ BitmapIdle /\ HexIdle

NextCanonical ==
    /\ CanonicalNext
    /\ UNCHANGED <<engine_vars, validate_vars, bitmap_vars, hex_vars>>

\* is_canonical and get_legal_next_dimensions
SpecCanonical == InitCanonical /\ [][NextCanonical]_vars

InitBitmap ==
    BitmapInit /\ EnginesIdle /\ ValidateIdle /\ CanonicalIdle /\ HexIdle

NextBitmap ==
    /\ BitmapNext
    /\ UNCHANGED <<engine_vars, validate_vars, canonical_vars, hex_vars>>

\* HypercubeBitmap objects and their copies
SpecBitmap == InitBitmap /\ [][NextBitmap]_vars

InitHex ==
    HexInit /\ EnginesIdle /\ ValidateIdle /\ CanonicalIdle /\ BitmapIdle

NextHex ==
    /\ HexNext
    /\ UNCHANGED <<engine_vars, validate_vars, canonical_vars, bitmap_vars>>

\* the hex text written by export_snake and read back
SpecHex == InitHex /\ [][NextHex]_vars

InitPrune ==
    /\ PruneInit /\ ParallelIdle
    /\ BfsIdle /\ NodeIdle /\ CodecIdle /\ SeedIdle /\ PrimeIdle
    /\ ValidateIdle /\ CanonicalIdle /\ BitmapIdle /\ HexIdle

NextPrune ==
    /\ PruneNext
    /\ UNCHANGED <<bfs_vars, node_vars, codec_vars, seed_vars, prime_vars,
                   validate_vars, canonical_vars, bitmap_vars, hex_vars,
                   parallel_vars>>

\* prune_by_fitness on lists of nodes
SpecPrune == InitPrune /\ [][NextPrune]_vars

InitParallel ==
    /\ ParallelInit /\ PruneIdle
    /\ BfsIdle /\ NodeIdle /\ CodecIdle /\ SeedIdle /\ PrimeIdle
    /\ ValidateIdle /\ CanonicalIdle /\ BitmapIdle /\ HexIdle

NextParallel ==
    /\ ParallelNext
    /\ UNCHANGED <<bfs_vars, node_vars, codec_vars, seed_vars, prime_vars,
                   validate_vars, canonical_vars, bitmap_vars, hex_vars,
                   prune_vars>>

\* parallel_search for every dimension, budget and number of workers of
\* the bounds
SpecParallel == InitParallel /\ [][NextParallel]_vars

InitWorkers ==
    /\ LevelInit /\ PruneIdle
    /\ BfsIdle /\ NodeIdle /\ CodecIdle /\ SeedIdle /\ PrimeIdle
    /\ ValidateIdle /\ CanonicalIdle /\ BitmapIdle /\ HexIdle

\* the coordinator and the workers of parallel_search, the while loop being
\* entered with any frontier
SpecWorkers == InitWorkers /\ [][NextParallel]_vars

(***************************************************************************)
(* Properties of pruned_bfs_search (specification Spec).                   *)
(***************************************************************************)
\* the strict validator applied to a node's sequence in dimension dim
IsValidSnakeIn(node, dim) ==
    /\ ~transition_to_vertex_raises(node.transition_sequence, dim)
    /\ validate_snake(transition_to_vertex(node.transition_sequence, dim))

\* C1: for every dimension and memory budget, the running best node and the
\* node returned by pruned_bfs_search are valid snakes in that dimension
\* (consecutive vertices at Hamming distance 1, all others at distance > 1).
C1_ReturnedSnakeIsValid ==
    /\ \A i \in 1..Len(best_snake) : IsValidSnakeIn(best_snake[i], dimension)
    /\ pc = "done" => \A i \in 1..Len(result) :
                          IsValidSnakeIn(result[i], dimension)

\* C1 witness: a search has returned a node long enough to have
\* non-consecutive vertex pairs
C1_Witness ==
    /\ pc = "done"
    /\ result # <<>>
    /\ get_length(result[1]) >= 3

\* C2: pruned_bfs_search(dimension=3) from the empty node returns a snake of
\* length >= 4.
C2_Dim3FindsLength4 ==
    (pc = "done" /\ dimension = 3) =>
        (result # <<>> /\ get_length(result[1]) >= 4)

\* every node of a list of nodes has a canonical transition sequence
AllCanonical(nodes) ==
    \A i \in 1..Len(nodes) : is_canonical(nodes[i].transition_sequence)

\* C5: every node ever placed in a frontier of pruned_bfs_search, the running
\* best and the node finally returned have canonical transition sequences.
C5_FrontierIsCanonical ==
    /\ AllCanonical(current_level)
    /\ AllCanonical(next_level)
    /\ AllCanonical(best_snake)
    /\ AllCanonical(result)

\* C5 witness: a frontier holds a node that introduced several dimensions
C5_Witness ==
    /\ current_level # <<>>
    /\ get_length(current_level[1]) >= 3
    /\ level_count >= 3

\* C8: for every dimension and every memory budget, also one too small for
\* a single node, pruned_bfs_search returns a node (never None) of length
\* at least 1.
C8_ReturnsNodeOfLengthAtLeast1 ==
    pc = "done" => (result # <<>> /\ get_length(result[1]) >= 1)

\* C8 witness: a search whose budget could not hold the returned node has
\* returned
C8_Witness ==
    /\ pc = "done"
    /\ result # <<>>
    /\ memory_limit < estimate_node_size(result[1])

(***************************************************************************)
(* Properties of the transition / vertex codec (specification SpecCodec).  *)
(***************************************************************************)
\* C6: for every dimension and every transition sequence with all values in
\* [0, dimension), transition_to_vertex does not raise, vertex_to_transition
\* does not raise on its result, and the sequence that comes back equals the
\* original sequence.
C6_RoundTrip ==
    (\A i \in 1..Len(c_seq) : c_seq[i] >= 0 /\ c_seq[i] < c_dim) =>
        /\ c_pc \notin {"ValueError", "back ValueError"}
        /\ c_pc = "back" => c_back = c_seq

\* C6 witness: a sequence that reuses a dimension has made the round trip
C6_Witness ==
    /\ c_pc = "back"
    /\ Len(c_seq) >= 3
    /\ c_seq[1] = c_seq[3]
    /\ c_seq[1] # c_seq[2]

(***************************************************************************)
(* Properties of SnakeNode (specification SpecNode).                       *)
(***************************************************************************)
\* C7: whenever create_child(d) succeeds on a node, the child's length is
\* the parent's length + 1 and the child's fitness is at most the parent's.
C7_ExtensionMonotonic ==
    (n_pc = "child") =>
        /\ get_length(n_child[1]) = get_length(n_node[1]) + 1
        /\ n_child[1].fitness <= n_node[1].fitness

\* C7 witness: a child was created from a parent of length >= 2 that has
\* free vertices left
C7_Witness ==
    /\ n_pc = "child"
    /\ get_length(n_node[1]) >= 2
    /\ n_child[1].fitness > 0

(***************************************************************************)
(* Properties of prime_search and pruned_bfs_search_from_seed              *)
(* (specification SpecPrime).                                              *)
(***************************************************************************)
\* C3: the sequence returned by prime_search is never shorter than the seed
\* and is the seed itself when nothing was gained, and a node returned by
\* pruned_bfs_search_from_seed is never shorter than the seed node.
C3_PrimingNeverRegresses ==
    /\ p_pc = "done" =>
          /\ Len(p_result) >= Len(lower_dimension_snake)
          /\ Len(p_result) = Len(lower_dimension_snake) =>
                 p_result = lower_dimension_snake
    /\ (s_pc = "returned" /\ s_result # <<>>) =>
          get_length(s_result[1]) >= get_length(seed_node[1])

\* C3 witness: a seeded search that had to start from a shorter prefix of
\* its seed has returned a node that does not extend the seed
C3_Witness ==
    /\ s_pc = "returned"
    /\ s_result # <<>>
    /\ Prefix(s_result[1].transition_sequence, get_length(seed_node[1]))
           # seed_node[1].transition_sequence

\* C4: if the seed is a valid snake in its detected dimension d and
\* target > d, the sequence returned by prime_search passes the strict
\* validator in the target dimension.
C4_PrimedSnakeIsValid ==
    (/\ p_pc = "done"
     /\ validate_transition_sequence(lower_dimension_snake,
                                     detect_dimension(lower_dimension_snake))
     /\ target_dimension > detect_dimension(lower_dimension_snake)) =>
        validate_transition_sequence(p_result, target_dimension)

\* C4 witness: a valid seed of length >= 2 was primed over two dimensions
C4_Witness ==
    /\ p_pc = "done"
    /\ Len(lower_dimension_snake) >= 2
    /\ validate_transition_sequence(lower_dimension_snake,
                                    detect_dimension(lower_dimension_snake))
    /\ Len(p_result) >= Len(lower_dimension_snake) + 2

\* C9: pruned_bfs_search_from_seed returns a node exactly when some
\* generated child is strictly longer than the seed, the node returned is
\* then as long as the longest child generated, and on the other outcome
\* (None) prime_search returns the seed it was working on, unmodified.
C9_ReturnsNodeIffExtended ==
    s_pc = "returned" =>
        /\ (s_result # <<>>) <=> (s_generated > get_length(seed_node[1]))
        /\ s_result # <<>> => get_length(s_result[1]) = s_generated
        /\ s_result = <<>> =>
              LET out == after_search(s_result,
                                      seed_node[1].transition_sequence,
                                      s_dimension - 1)
              IN /\ out.returns
                 /\ out.current_snake = seed_node[1].transition_sequence

\* C9 witness: a seeded search generated children as long as the seed, none
\* longer, and returned None
C9_Witness ==
    /\ s_pc = "returned"
    /\ s_result = <<>>
    /\ s_generated = get_length(seed_node[1])
    /\ s_generated > 0

\* the number of increments that extended, so far
Extended == current_dim - detect_dimension(lower_dimension_snake)

\* the parts of C10 other than the bound on the transitions of the result
PrimeStepwise ==
    LET d == detect_dimension(lower_dimension_snake)
    IN \* an increment searches the next dimension from the sequence reached
       /\ p_pc = "call" =>
             /\ seed_node[1].transition_sequence = current_snake
             /\ current_snake = p_last_output
             /\ s_dimension = current_dim + 1
             /\ seed_node[1].dimension = current_dim + 1
       \* no increment failed while the loop goes on
       /\ p_pc = "loop" => (p_increments = Extended /\ current_dim < target_dimension)
       /\ p_pc = "call" => (p_increments = Extended + 1 /\ current_dim < target_dimension)
       \* the loop stopped at the target or at the first failed increment
       /\ (p_pc = "done" /\ d < target_dimension) =>
             /\ p_result = p_last_output
             /\ \/ current_dim = target_dimension /\ p_increments = Extended
                \/ current_dim < target_dimension /\ p_increments = Extended + 1
       /\ d < target_dimension => p_increments <= target_dimension - d
       \* a seed already in the target dimension is returned unchanged
       /\ (p_pc = "done" /\ d >= target_dimension) =>
             (p_result = lower_dimension_snake /\ p_increments = 0)

\* C10 as claimed: prime_search raises the dimension one step at a time,
\* feeding each increment's output to the next, stops at the first increment
\* that does not extend or at the target, makes at most
\* target - detect_dimension(seed) increments, returns a seed with
\* detect_dimension(seed) >= target unchanged, and every transition of the
\* result is < target.
C10_Original ==
    /\ PrimeStepwise
    /\ p_pc = "done" =>
          \A i \in 1..Len(p_result) : p_result[i] < target_dimension

\* C10 as amended: the same, with every transition of the result < target
\* only when detect_dimension(seed) <= target.
C10_PrimeStepwise ==
    /\ PrimeStepwise
    /\ (p_pc = "done"
        /\ detect_dimension(lower_dimension_snake) <= target_dimension) =>
          \A i \in 1..Len(p_result) : p_result[i] < target_dimension

\* C10 witness: prime_search made three increments and returned in the
\* target dimension
C10_Witness ==
    /\ p_pc = "done"
    /\ p_increments = 3
    /\ current_dim = target_dimension
    /\ Len(p_result) = Len(lower_dimension_snake) + 3
(***************************************************************************)
(* Properties of the validators (specification SpecValidate).              *)
(***************************************************************************)
\* some consecutive pair of vs is not at Hamming distance exactly 1
BadConsecutive(vs) ==
    \E i \in 1..(Len(vs) - 1) : hamming_distance(vs[i], vs[i + 1]) # 1

\* some pair (j, i) of vs with j < i - 1 is at Hamming distance <= 1
BadNonConsecutive(vs) ==
    \E i \in 1..Len(vs) : \E j \in 1..Len(vs) :
        j < i - 1 /\ hamming_distance(vs[i], vs[j]) <= 1

\* C11: validate_snake(v) returns true exactly when len(v) < 2 or every
\* consecutive pair is at Hamming distance 1 and every pair (j, i) with
\* j < i - 1 is at Hamming distance > 1; when both kinds of violation are
\* present the failure reported is a consecutive-pair failure.
C11_ValidateSnakeExact ==
    (v_pc = "returned" /\ v_call = "validate_snake") =>
        /\ v_outcome[1] <=>
              \/ Len(v_vertices) < 2
              \/ ~BadConsecutive(v_vertices) /\ ~BadNonConsecutive(v_vertices)
        /\ (/\ Len(v_vertices) >= 2
            /\ BadConsecutive(v_vertices)
            /\ BadNonConsecutive(v_vertices)) =>
              v_outcome[2].kind = "Consecutive vertices"

\* C11 witness: a sequence with a non-consecutive violation at indices 0, 2
\* and a consecutive violation only later was reported as a consecutive one
C11_Witness ==
    /\ v_pc = "returned"
    /\ v_call = "validate_snake"
    /\ Len(v_vertices) = 4
    /\ hamming_distance(v_vertices[1], v_vertices[2]) = 1
    /\ hamming_distance(v_vertices[2], v_vertices[3]) = 1
    /\ hamming_distance(v_vertices[1], v_vertices[3]) = 0
    /\ hamming_distance(v_vertices[3], v_vertices[4]) = 2
    /\ v_outcome[2].kind = "Consecutive vertices"
\* C16: validate_transition_sequence(seq, dimension) never raises; it
\* returns a (bool, reason) pair that is false when some transition is
\* outside [0, dimension), true for the empty sequence, and otherwise the
\* verdict of validate_snake on transition_to_vertex(seq, dimension).
C16_ValidateNeverRaises ==
    (v_call = "validate_transition_sequence") =>
        /\ v_pc # "raised"
        /\ v_pc = "returned" =>
              /\ Len(v_outcome) = 2
              /\ v_outcome[1] \in BOOLEAN
              /\ (\E i \in 1..Len(v_seq) : v_seq[i] < 0 \/ v_seq[i] >= v_dim)
                    => ~v_outcome[1]
              /\ v_seq = <<>> => v_outcome[1]
              /\ (/\ v_seq # <<>>
                  /\ \A i \in 1..Len(v_seq) :
                         v_seq[i] >= 0 /\ v_seq[i] < v_dim) =>
                    v_outcome =
                       <<validate_snake(transition_to_vertex(v_seq, v_dim)),
                         validate_snake_message(
                             transition_to_vertex(v_seq, v_dim))>>

\* C16 witness: a sequence with a transition above the range and a negative
\* one after it was answered with false
C16_Witness ==
    /\ v_pc = "returned"
    /\ v_call = "validate_transition_sequence"
    /\ Len(v_seq) >= 3
    /\ v_seq[2] >= v_dim
    /\ v_seq[3] < 0
    /\ v_outcome[1] = FALSE
    /\ v_outcome[2].kind = "Transition out of range"
(***************************************************************************)
(* Properties of the canonical form (specification SpecCanonical).         *)
(***************************************************************************)
\* C12: is_canonical(seq) is true exactly when seq is empty, or seq[0] = 0
\* and every later element is <= (maximum of all earlier elements) + 1.
C12_IsCanonicalExact ==
    (k_pc = "returned" /\ k_call = "is_canonical") =>
        (k_result[1] <=>
            \/ k_seq = <<>>
            \/ /\ k_seq[1] = 0
               /\ \A i \in 2..Len(k_seq) :
                      \E j \in 1..(i - 1) :
                          /\ \A h \in 1..(i - 1) : k_seq[h] <= k_seq[j]
                          /\ k_seq[i] <= k_seq[j] + 1)

\* C12 witness: a sequence that reuses a dimension after introducing three
\* was accepted
C12_Witness ==
    /\ k_pc = "returned"
    /\ k_call = "is_canonical"
    /\ k_seq = <<0, 1, 2, 0>>
    /\ k_result[1] = TRUE

\* C13: get_legal_next_dimensions(seq) returns {0} for the empty sequence
\* and otherwise exactly the distinct values of seq together with
\* max(seq) + 1, each once.
C13_LegalNextExact ==
    (k_pc = "returned" /\ k_call = "get_legal_next_dimensions") =>
        LET legal == k_result[1]
        IN /\ k_seq = <<>> => legal = <<0>>
           /\ k_seq # <<>> =>
                 /\ \A d \in -2..(MaxCanonVal + 2) :
                        (\E i \in 1..Len(legal) : legal[i] = d) <=>
                           \/ \E i \in 1..Len(k_seq) : k_seq[i] = d
                           \/ /\ \E i \in 1..Len(k_seq) : k_seq[i] = d - 1
                              /\ \A i \in 1..Len(k_seq) : k_seq[i] <= d - 1
                 /\ \A i \in 1..Len(legal) : legal[i] \in -2..(MaxCanonVal + 2)
           /\ \A i \in 1..Len(legal) : \A j \in 1..Len(legal) :
                  legal[i] = legal[j] => i = j

\* C13 witness: a sequence that repeats a value and skips one got its three
\* distinct values and the next one
C13_Witness ==
    /\ k_pc = "returned"
    /\ k_call = "get_legal_next_dimensions"
    /\ k_seq = <<0, 3, 0, 1>>
    /\ k_result[1] = <<0, 1, 3, 4>>
(***************************************************************************)
(* Further properties of SnakeNode (specification SpecNode).               *)
(***************************************************************************)
\* the vertex reached from the end of node's path along dimension d is in
\* range and not marked in node's bitmap
NextVertexFree(node, d) ==
    LET path == transition_to_vertex(node.transition_sequence, node.dimension)
        next_vertex == Xor(path[Len(path)], Shl1(d))
    IN next_vertex \notin node.vertices_bitmap.bits

\* create_child has just been called on n_node with n_new_dimension
ChildCalled == n_pc \in {"child", "child ValueError"}

\* C14, the outcome: can_extend(d) is false outside [0, dimension) and
\* otherwise true iff the vertex current_vertex XOR 2^d is unmarked;
\* create_child(d) raises exactly when can_extend(d) is false and otherwise
\* returns a node with the sequence parent sequence + [d]
ChildOutcome ==
    ChildCalled =>
        LET parent == n_node[1]
            d == n_new_dimension
            in_range == d >= 0 /\ d < parent.dimension
        IN /\ ~in_range => ~can_extend(parent, d)
           /\ in_range => (can_extend(parent, d) <=> NextVertexFree(parent, d))
           /\ (n_pc = "child ValueError") <=> ~can_extend(parent, d)
           /\ n_pc = "child" =>
                 /\ n_child[1].transition_sequence =
                        Append(parent.transition_sequence, d)
                 /\ n_child[1].dimension = parent.dimension

\* C14, the frame: a call of create_child leaves the parent's sequence,
\* bitmap and fitness as they were
ParentUnchanged ==
    ChildCalled' =>
        /\ n_node'[1].transition_sequence = n_node[1].transition_sequence
        /\ n_node'[1].vertices_bitmap = n_node[1].vertices_bitmap
        /\ n_node'[1].fitness = n_node[1].fitness

\* C14: for every node and every integer d, can_extend(d) is false when d
\* is outside [0, dimension) and otherwise true iff the vertex
\* current_vertex XOR 2^d is unmarked in the node's bitmap; create_child(d)
\* raises exactly when can_extend(d) is false, and otherwise returns a new
\* node whose sequence is parent sequence + [d] while the parent's sequence,
\* bitmap and fitness are left unchanged.
C14_CreateChildFrame == []ChildOutcome /\ [][ParentUnchanged]_vars

\* C14 witness: a child was created from a parent of length >= 2 whose
\* sequence, bitmap and fitness are those of a freshly built node
C14_Witness ==
    /\ n_pc = "child"
    /\ get_length(n_node[1]) >= 2
    /\ n_node[1] = SnakeNode(n_node[1].transition_sequence, n_dim)
    /\ n_child[1].transition_sequence =
           Append(n_node[1].transition_sequence, n_new_dimension)

\* C15: SnakeNode(seq, dimension) fails with an error if and only if
\* dimension < 1 or some element of seq is outside [0, dimension), and a
\* node that was built holds the sequence it was given, no value corrected
\* or dropped.
C15_ConstructorRejectsExactly ==
    /\ n_pc \notin {"new", "idle"} =>
          ((n_pc = "ValueError") <=>
              \/ n_dim < 1
              \/ \E i \in 1..Len(n_seq) : n_seq[i] < 0 \/ n_seq[i] >= n_dim)
    /\ n_node # <<>> =>
          /\ Prefix(n_node[1].transition_sequence, Len(n_seq)) = n_seq
          /\ n_node[1].dimension = n_dim

\* C15 witness: a sequence whose only fault is its last element, equal to
\* the dimension, was refused
C15_Witness ==
    /\ n_pc = "ValueError"
    /\ n_dim >= 2
    /\ Len(n_seq) >= 2
    /\ n_seq[Len(n_seq)] = n_dim
    /\ \A i \in 1..(Len(n_seq) - 1) : n_seq[i] >= 0 /\ n_seq[i] < n_dim
(***************************************************************************)
(* Properties of HypercubeBitmap (specification SpecBitmap).               *)
(***************************************************************************)
\* construction fails exactly for dimension < 1, and set_bit, clear_bit and
\* get_bit fail with IndexError exactly for a vertex outside
\* [0, 2^dimension)
BitmapErrors ==
    /\ b_call = "__init__" =>
          ((b_outcome = "ValueError") <=> b_dimension < 1)
    /\ b_call \in {"set_bit", "clear_bit", "get_bit"} =>
          ((b_outcome = "IndexError") <=>
              (b_vertex < 0 \/ b_vertex >= 2 ^ b_dimension))

\* a call that failed changed no bit of any bitmap
FailedCallKeepsBits ==
    b_outcome' \in {"IndexError", "ValueError"} =>
        /\ b_arrays' = b_arrays
        /\ b_bitmaps' = b_bitmaps

\* C17: set_bit, clear_bit and get_bit each fail with an out-of-range error
\* for every vertex outside [0, 2^dimension), a failed call leaves every
\* bit of the bitmap unchanged, and construction fails for dimension < 1.
C17_OutOfRangeRejected == []BitmapErrors /\ [][FailedCallKeepsBits]_vars

\* C17 witness: clear_bit(2^dimension) failed on a bitmap that has a copy
\* and holds marked vertices
C17_Witness ==
    /\ b_call = "clear_bit"
    /\ b_outcome = "IndexError"
    /\ b_vertex = 2 ^ b_dimension
    /\ Len(b_bitmaps) = 2
    /\ bitmap_of(b_target).bits # {}

\* C18: after any sequence of set_bit, clear_bit, clear_all and copy calls,
\* count_unmarked() and count_unmarked_fast() of every bitmap are equal and
\* equal 2^dimension minus the number of vertices marked in it, and a copy
\* shares no state with its original: the content of each object is what
\* the calls made on that object left.
C18_CountsAgree ==
    \A o \in 1..Len(b_bitmaps) :
        /\ count_unmarked(bitmap_of(o)) = count_unmarked_fast(bitmap_of(o))
        /\ count_unmarked(bitmap_of(o))
              = 2 ^ b_dimension - Cardinality(b_marked[o])
        /\ \A v \in 0..(2 ^ b_dimension - 1) :
              get_bit(bitmap_of(o), v) <=> v \in b_marked[o]

\* C18 witness: a vertex was marked, the bitmap copied and the vertex
\* cleared in the original, so that the two differ
C18_Witness ==
    /\ b_call = "clear_bit"
    /\ b_outcome = "ok"
    /\ b_target = 1
    /\ Len(b_bitmaps) = 2
    /\ b_marked[1] = {}
    /\ b_marked[2] # {}
    /\ count_unmarked_fast(bitmap_of(2)) = 2 ^ b_dimension - 1
(***************************************************************************)
(* Properties of the hex text format (specification SpecHex).              *)
(***************************************************************************)
\* C19: for every transition sequence with values in 0..15,
\* parse_hex_transition_string applied to the text export_snake writes for
\* it, in either letter case and with characters that are not hex digits
\* interleaved, returns exactly the original sequence.
C19_HexRoundTrip ==
    (/\ x_pc = "parsed"
     /\ \A i \in 1..Len(x_seq) : x_seq[i] >= 0 /\ x_seq[i] <= 15) =>
        x_parsed = x_seq

\* C19 witness: a text with an upper-case letter and an inserted character
\* was read back as the two transitions written
C19_Witness ==
    /\ x_pc = "parsed"
    /\ Len(x_seq) = 2
    /\ x_seq[1] >= 10 /\ x_seq[1] <= 15
    /\ x_string[1] = char_upper(export_hex_char(x_seq[1]))
    /\ x_string[2] \in NonHexChars
    /\ x_parsed = x_seq
(***************************************************************************)
(* Termination of pruned_bfs_search_from_seed (specification SpecPrime).   *)
(***************************************************************************)
\* C20: the level cap bounds the priming search: for every seed node and
\* dimension, dimension >= 14 with its backtracking included,
\* pruned_bfs_search_from_seed terminates and the body of its expand loop
\* runs at most max_levels times.
C20_LevelCapBoundsLoop == s_iterations <= max_levels
(***************************************************************************)
(* The bitmap of a SnakeNode (specification SpecNode).                     *)
(***************************************************************************)
\* vertex 0, every path vertex and, for the vertex reached after step i,
\* its neighbours along the dimensions of the transitions 1..i
SoFarUsedMarks(seq, dim) ==
    LET path == transition_to_vertex(seq, dim)
    IN {path[i + 1] : i \in 0..Len(seq)}
       \cup UNION {{Xor(path[i + 1], Shl1(seq[j])) : j \in 1..i} :
                      i \in 0..Len(seq)}

\* C21: a SnakeNode's bitmap marks exactly vertex 0, every path vertex and,
\* for the vertex reached after step i, its neighbours along the dimensions
\* used by the transitions up to and including step i, and nothing else;
\* the node's fitness is the number of unmarked vertices of that bitmap.
C21_BitmapMarksSoFarUsed ==
    n_node # <<>> =>
        /\ n_node[1].vertices_bitmap.bits =
              SoFarUsedMarks(n_node[1].transition_sequence, n_node[1].dimension)
        /\ n_node[1].fitness =
              2 ^ n_node[1].dimension
              - Cardinality(n_node[1].vertices_bitmap.bits)
(***************************************************************************)
(* The unreachable-vertex count of a node (specification SpecNode).        *)
(***************************************************************************)
\* the unmarked neighbours of the vertices of from
FreeNeighbours(node, from) ==
    {w \in 0..(2 ^ node.dimension - 1) :
        /\ ~_is_marked(node, w)
        /\ \E v \in from : \E dim \in 0..(node.dimension - 1) :
               w = Xor(v, Shl1(dim))}

RECURSIVE FreeClosure(_, _)
FreeClosure(node, reached) ==
    LET more == reached \cup FreeNeighbours(node, reached)
    IN IF more = reached THEN reached ELSE FreeClosure(node, more)

\* the unmarked vertices reached from the current vertex by a path of
\* hypercube edges whose vertices after the current vertex are all unmarked
FreeReachable(node) ==
    FreeClosure(node, FreeNeighbours(node, {get_current_vertex(node)}))

\* C22: count_unreachable_vertices is the number of unmarked vertices that
\* cannot be reached from the node's current vertex by a path of hypercube
\* edges whose vertices after the current vertex are all unmarked (so an
\* unmarked neighbour of the current vertex counts as reachable), and the
\* result lies in [0, fitness].
C22_UnreachableCount ==
    n_unreachable # <<>> =>
        /\ n_unreachable[1] =
              n_node[1].fitness - Cardinality(FreeReachable(n_node[1]))
        /\ n_unreachable[1] \in 0..n_node[1].fitness
(***************************************************************************)
(* can_extend and the dimensions a node has used (specification SpecNode). *)
(***************************************************************************)
\* C29: for every SnakeNode and every d in [0, dimension), can_extend(d) is
\* true if and only if d does not occur anywhere in the node's transition
\* sequence; create_child(d) succeeds in exactly those cases.
C29_CanExtendIffUnused ==
    n_node # <<>> =>
        LET node == n_node[1]
            used == Range(node.transition_sequence)
        IN /\ \A d \in 0..(node.dimension - 1) :
                  can_extend(node, d) <=> d \notin used
           /\ (ChildCalled /\ n_new_dimension \in 0..(node.dimension - 1)) =>
                  ((n_pc = "child") <=> n_new_dimension \notin used)

\* a node that revisits a dimension refuses it again and accepts an unused one
C29_Witness ==
    /\ n_pc = "child"
    /\ n_node[1].transition_sequence = <<0, 1, 0>>
    /\ n_node[1].dimension = 3
    /\ n_new_dimension = 2
    /\ ~can_extend(n_node[1], 0)
    /\ ~can_extend(n_node[1], 1)
(***************************************************************************)
(* Pruning by fitness (specification SpecPrune).                           *)
(***************************************************************************)
\* the number of occurrences of x in nodes
Occurrences(nodes, x) == Cardinality({i \in 1..Len(nodes) : nodes[i] = x})

\* the nodes of the list passed that are missing from the list returned
Discarded ==
    {x \in Range(pr_input) :
        Occurrences(pr_input, x) > Occurrences(pr_result, x)}

\* the node count that fits the budget, from the size of the first node
PruneMaxNodes == pr_limit \div estimate_node_size(pr_input[1])

\* the nodes of one search level have one length
IsLevel(nodes) ==
    \A i, j \in 1..Len(nodes) : get_length(nodes[i]) = get_length(nodes[j])

BestIsFirstLongest ==
    /\ best_snake # <<>> => get_length(best_snake[1]) = max_length
    /\ (pc = "prune" /\ next_level # <<>>) =>
           /\ \A i \in 1..Len(next_level) :
                  get_length(next_level[i]) = max_length
           /\ best_snake = <<next_level[1]>>
    /\ pc \in {"return", "done"} => best_snake # <<>>

\* a step that replaces the best replaces it by a strictly longer child
BestReplacedByLonger ==
    /\ max_length' >= max_length
    /\ best_snake' # best_snake =>
           /\ best_snake' # <<>>
           /\ get_length(best_snake'[1]) > max_length
           /\ \E i \in 1..Len(next_level') : best_snake' = <<next_level'[i]>>

\* C27: the running best of pruned_bfs_search is replaced only by a strictly
\* longer child, so it is at every point the first-generated among the
\* longest children generated so far and its length never decreases; the
\* best is kept when pruning discards it from the frontier.
C27_BestIsFirstLongest ==
    []BestIsFirstLongest /\ [][BestReplacedByLonger]_vars

\* the child of level 2 was discarded by pruning and is the node returned
C27_Witness ==
    /\ pc = "done"
    /\ dimension = 3
    /\ level_count = 2
    /\ result # <<>>
    /\ result[1].transition_sequence = <<0, 1>>
    /\ memory_limit < estimate_node_size(result[1])
    /\ current_level = <<>>

\* the frontier is empty when the loop is left, the nodes of the frontier
\* of level k have length k, and no more than 2^n levels are executed
LevelShape ==
    /\ pc \in {"return", "done"} => current_level = <<>>
    /\ pc = "expand" =>
           /\ current_level # <<>>
           /\ \A i \in 1..Len(current_level) :
                  get_length(current_level[i]) = level_count
    /\ pc = "prune" =>
           \A i \in 1..Len(next_level) :
               get_length(next_level[i]) = level_count + 1
    /\ level_count <= 2 ^ dimension

\* C28: for every dimension n >= 1 and every memory budget,
\* pruned_bfs_search terminates, it stops only when the frontier is empty,
\* at level k every frontier node has length exactly k, and at most 2^n
\* levels are executed.
C28_TerminatesLevelByLevel ==
    []LevelShape /\ <>(pc = "done")

\* a search of the largest dimension has gone through all its levels
C28_Witness ==
    /\ pc = "done"
    /\ dimension = MaxDim
    /\ level_count = MaxDim + 1
    /\ current_level = <<>>

\* the sequence [0, 1, ..., n-1]
Chain(n) == [i \in 1..n |-> i - 1]

\* the budget holds a node of every length 1..n: pruning keeps a node at
\* every level
KeepsOnePerLevel ==
    \A k \in 1..dimension :
        memory_limit >= estimate_node_size(SnakeNode(Chain(k), dimension))

\* the budget holds no node: pruning keeps nothing
KeepsNoNode ==
    memory_limit < estimate_node_size(SnakeNode(Chain(1), dimension))

LockDiscipline == ~unlocked_access

\* the stored sequence has the stored length
SharedConsistent ==
    Len(best_snake_shared.sequence) = best_snake_shared.length

\* every worker task of the level has returned
AllFinished == \A w \in 1..Len(workers) : workers[w].pc = "finished"

\* once the workers have finished, the stored length is the length of the
\* longest child generated so far
StoredIsLongest == AllFinished => best_snake_shared.length = q_generated

\* C23 as stated: under every interleaving of the workers of a level the
\* shared best-snake record is read and written only by the holder of the
\* lock, its stored length never decreases, its stored sequence always has
\* exactly the stored length, and once all workers of the level have
\* finished the stored length is the maximum length of any child generated
\* so far.
C23_Original ==
    /\ LockDiscipline
    /\ ~stored_decreased
    /\ SharedConsistent
    /\ StoredIsLongest

\* C23, amended: as stated, except that the stored sequence has exactly the
\* stored length whenever no process holds the lock (between lines 161 and
\* 162 the holder has written the length and not yet the sequence).
C23_SharedBestUnderLock ==
    /\ LockDiscipline
    /\ ~stored_decreased
    /\ best_snake_lock = Unlocked => SharedConsistent
    /\ StoredIsLongest

\* two workers of one level: the second holds the lock between its two
\* writes while the first waits for the lock with a child of its own
C23_Witness ==
    /\ Len(workers) = 2
    /\ workers[1].pc = "acquire"
    /\ workers[2].pc = "write_sequence"
    /\ best_snake_lock = 2
    /\ ~SharedConsistent

(***************************************************************************)
(* parallel_search against pruned_bfs_search, and its chunks               *)
(* (specification SpecParallel).                                           *)
(***************************************************************************)
\* C24: for the same dimension and memory budget and any num_workers >= 1,
\* after every level the frontier of the coordinator of parallel_search
\* (after concatenation and pruning) holds the same nodes in the same order
\* as the frontier of pruned_bfs_search at that level, and the best snake
\* returned has the same length.
C24_ParallelRefinesSequential ==
    LET sequential == bfs_levels(q_dimension, q_memory_limit, q_level_count)
    IN /\ q_pc \in {"split", "return", "done"} =>
              q_current_level = sequential.current_level
       /\ q_pc = "done" =>
              /\ q_result # <<>>
              /\ sequential.best_snake # <<>>
              /\ get_length(q_result[1]) =
                     get_length(sequential.best_snake[1])

\* the chunks c..Len(parts) of parts, concatenated
RECURSIVE Flatten(_, _)
Flatten(parts, c) ==
    IF c > Len(parts) THEN <<>> ELSE parts[c] \o Flatten(parts, c + 1)

====
